---- MODULE Spec2Model ----
(***************************************************************************)
(* Voltage analytics pipeline of elektros-stebesenos-sistema:              *)
(*   AnomalyTracker  (server/src/services/anomalyTracker.ts)               *)
(*   WindowManager   (server/src/services/windowManager.ts)                *)
(*   voltageAnalysis (server/src/services/voltageAnalysis.ts)              *)
(*   VoltageState    (server/src/services/voltageState.ts)                 *)
(*   HTTP routes     (server/src/routes/voltage.ts)                        *)
(*                                                                         *)
(* Conventions.                                                            *)
(*   - A Date is its getTime() value: an integer number of milliseconds.   *)
(*   - A voltage is an integer number of volts; where decimals matter it   *)
(*     is fixed-point with three decimals (the integer 1000 * volts).      *)
(*   - durationSeconds is a fixed-point number with three decimals, i.e.   *)
(*     the integer 1000 * seconds; (end - start) / 1000 on millisecond     *)
(*     timestamps is therefore exact.  rmsVoltageLx is fixed-point with    *)
(*     three decimals as well (toFixed(3)).                                *)
(*   - compliancePctLx is fixed-point with two decimals (toFixed(2)); the  *)
(*     percentage before rounding is the exact ratio of two integers.      *)
(*   - null is the integer Null, Infinity the integer Infinity; an         *)
(*     optional argument that is left out is Null (a Date) or the empty    *)
(*     string (a string), both falsy in the source.                        *)
(*   - pushReading and the query methods have no await: each runs to       *)
(*     completion, so each is one step; so is a route handler, which       *)
(*     awaits nothing between reading the request and building the reply.  *)
(*   - A query parameter that is parsed as a number is a sequence of       *)
(*     characters; one that is parsed as a date is the text together with  *)
(*     the time `new Date(text)` gives for it.  A reply is a record with   *)
(*     its status code and the fields of its body.                         *)
(*   - Local time is UTC plus the offset of the process's time zone.  The  *)
(*     pipeline runs in a zone of fixed offset, except where a definition  *)
(*     takes the zone as an argument.                                      *)
(*   - hist, addCalls and emittedSamples record what was fed to the        *)
(*     tracker and the window manager; no operation reads them.            *)
(***************************************************************************)
EXTENDS Integers, Sequences, FiniteSets, TLC

\* ------------------------------------------------------------------ bounds
\* Number of readings fed to a tracker / aggregator / store in one behaviour.
MaxReadings == 3

\* Voltages a phase of a reading is drawn from: zero (< 10), the smallest
\* non-zero value (out of bounds, low), in bounds, out of bounds (high).
Voltages == {0, 10, 230, 250}

\* Number of pairs of readings fed to a pair of trackers in one behaviour.
MaxPairReadings == 2

\* The three voltages <<L1, L2, L3>> of the readings fed to a tracker: all
\* nominal, one phase off nominal, and the reading of the independent-phases
\* scenario (two phases off nominal).
VoltageTriples ==
  {<<230, 230, 230>>, <<230, 0, 250>>}
  \cup {<<v, 230, 230>> : v \in Voltages}
  \cup {<<230, v, 230>> : v \in Voltages}
  \cup {<<230, 230, v>> : v \in Voltages}

\* The voltages of the readings fed to the second tracker of a pair.
OtherTriples ==
  {<<230, 230, 230>>, <<0, 0, 0>>, <<250, 250, 250>>, <<230, 0, 250>>}

\* The voltages of the readings fed to a window manager and to the store.
WindowTriples ==
  {<<230, 230, 230>>, <<0, 0, 0>>, <<230, 0, 250>>, <<10, 250, 230>>}

\* Gaps between the timestamps of consecutive readings, in milliseconds:
\* same instant, 1 ms, 180 s (the long-interruption threshold).
TimeSteps == {0, 1, 180000}

\* The same for a pair of trackers.
PairTimeSteps == {180000}

\* The same for a window manager and the store: 1 ms, 180 s, 600 s (one
\* window).
WindowTimeSteps == {1, 180000, 600000}

\* Number of readings handed to aggregateWindow in one call.
MaxSamples == 4

\* The voltages of those readings: nominal, the bounds themselves with 1 V
\* under the lower one, and 1 V over the upper one with zero on another phase.
AggregateTriples ==
  {<<230, 230, 230>>, <<219, 220, 240>>, <<241, 0, 230>>, <<230, 0, 241>>}

\* Histories of a store: the number n of readings pushed since construction,
\* dt milliseconds apart (reading i at dt * i, no reset in between), and the
\* voltage of L1 (L2 and L3 are nominal): "high", 250 V throughout, or
\* "swing", 250 V in the odd readings and 230 V in the even ones.  One reading
\* per second fills a 10-minute slot with more than 60 readings; the other
\* histories fill the anomaly, the window and the reading buffer to their
\* caps and one short of them.
Fills ==
  {[pattern |-> "high", n |-> 61, dt |-> 1000],
   [pattern |-> "swing", n |-> 60, dt |-> 10000],
   [pattern |-> "swing", n |-> 999, dt |-> 20000],
   [pattern |-> "swing", n |-> 1000, dt |-> 20000],
   [pattern |-> "swing", n |-> 4031, dt |-> 300000],
   [pattern |-> "swing", n |-> 4033, dt |-> 300000],
   [pattern |-> "swing", n |-> 86399, dt |-> 20000],
   [pattern |-> "swing", n |-> 86400, dt |-> 20000]}

\* The voltages of the readings pushed to such a store, and the gaps between
\* their timestamps: 1 s, and 600 s (one window).
FillTriples == {<<230, 230, 230>>, <<250, 250, 250>>}
FillTimeSteps == {1000, 600000}

\* The voltages of the readings pushed to a store that has readers, the gap
\* between their timestamps (one window), and the arguments the readers
\* give: a time (-1 when the argument is left out), a type and a phase (the
\* empty string when left out).
ReaderTriples == {<<230, 230, 230>>, <<250, 0, 230>>}
ReaderTimeSteps == {600000}
QueryFrom == {-1, 600000}
QueryTo == {-1, 1200000}
QueryTypes == {"", "VOLTAGE_DEVIATION"}
QueryPhases == {"", "L2"}

\* The same for a store whose windows and anomalies are filtered: a
\* deviation on one phase with an interruption on another, either way round;
\* bounds on the starts of the windows (600 s, 1200 s), between them and on
\* the end of the first one; a type and a phase that some anomalies have and
\* others have not.
FilterTriples == {<<230, 230, 230>>, <<250, 0, 230>>, <<0, 250, 230>>}
FilterTimeSteps == {600000}
FilterFrom == {-1, 600000, 1200000}
FilterTo == {-1, 1200000, 1500000}
FilterTypes == {"", "VOLTAGE_DEVIATION"}
FilterPhases == {"", "L1"}

\* The lists of windows handed to calculateWeeklyCompliance: their lengths,
\* and the number of windows that are not compliant on a phase (at most the
\* length).  968 compliant windows of 1019 are 94.995...%.
WeeklyTotals == {0, 1, 20, 100, 1019}
WeeklyFailing == {0, 1, 5, 6, 51, 52}

\* The time zones the process runs in: UTC, and Europe/Vilnius (the ESO grid)
\* in a week in which the clocks change: back from UTC+3 to UTC+2 or forward
\* from UTC+2 to UTC+3, on a Sunday at 01:00 UTC.  An instant of the model is
\* below 2^31 ms, i.e. within the first 24 days of 1970, so the clock changes
\* of the last Sunday of October and of March are placed on the Sundays
\* 1970-01-11 and 1970-01-04; weekdays and times of day are those of any week
\* with such a change.
TimeZones ==
  {[name |-> "UTC", before |-> 0, change |-> -1, after |-> 0],
   [name |-> "Europe/Vilnius, clocks back", before |-> 10800000,
    change |-> 867600000, after |-> 7200000],
   [name |-> "Europe/Vilnius, clocks forward", before |-> 7200000,
    change |-> 262800000, after |-> 10800000]}

\* The dates getWeeklyCompliance is asked about: a Friday, a Wednesday, and
\* the instants around Monday 00:00 of the time zones above (the last
\* millisecond of a Sunday, the first of a Monday, and the last hour of the
\* Sunday of a clock change).
WeekDates ==
  {100000000, 334800000, 338399999, 338400000, 345599999, 345600000,
   600000000, 939600000, 943199999, 943200000, 950399999, 950400000}

\* The dates getWindowStart is asked about: instants of a day without clock
\* change (on a boundary, 1 ms before one, inside a slot), and instants
\* around the clock changes of the time zones above: the hour that local
\* time shows twice when the clocks go back (00:00 - 01:00 UTC and 01:00 -
\* 02:00 UTC of 1970-01-11) and the hours around the one that local time
\* skips when they go forward (01:00 UTC of 1970-01-04).
SlotDates ==
  {0, 599999, 600000, 2242000, 3599999, 86400000,
   262799999, 262800000, 265042000, 266400000,
   864000000, 865800000, 866242000, 867599999,
   867600000, 869400000, 869842000, 871199999,
   871200000, 873442000}

\* The readings pushed to a store whose process is in a time zone on the
\* day its clocks go back (at 01:00 UTC of 1970-01-11): their timestamps,
\* in the hour local time shows for the first time (00:30, 00:40 UTC), in
\* the hour it shows again (01:20, 01:30, 01:40 UTC) and after it (02:00
\* UTC), and their voltages.
ZoneTimes ==
  {865800000, 866400000, 868800000, 869400000, 870000000, 871200000}
ZoneTriples == {<<230, 230, 230>>, <<250, 0, 230>>}

\* The history of the store asked: a reading every 5 minutes for two weeks,
\* i.e. the windows of the slots 0 .. 2015; and the gap to the readings then
\* pushed (one window).
WeekFills == {[pattern |-> "swing", n |-> 4033, dt |-> 300000]}
WeekTimeSteps == {600000}

\* The history of a store asked for downsampled readings: 999 readings, 20 s
\* apart; the bounds of the range asked for (the first 0, 1, 14, 122 and all
\* 999 readings of the history); the gap to the readings then pushed; and
\* the texts of the query parameter `points`, each a sequence of characters
\* (<<>> when the parameter is left out).  122 readings at 14 points have a
\* step of 8.714..., whose 7th multiple is 61 in exact arithmetic.
DownsampleFills == {[pattern |-> "swing", n |-> 999, dt |-> 20000]}
DownsampleFrom == {20000}
DownsampleTo == {0, 20000, 280000, 2440000, 30000000}
DownsampleTimeSteps == {20000}
PointsTexts ==
  {<<>>, <<"a", "b", "c">>, <<"0">>, <<"-", "5">>, <<"1">>, <<"2">>,
   <<"1", "4">>, <<"1", "2", "1">>, <<"9", "9", "9", "9", "9">>}

\* Requests to GET /api/voltage/anomalies.  The store has a history of 120
\* readings 20 s apart (120 anomalies, all deviations on L1) and is then
\* pushed readings 20 s apart with a deviation on every phase.  The
\* parameters type and phase are texts ("" when left out), one of each
\* outside its enumeration; from and to are date texts: the text and the time
\* `new Date(text).getTime()` gives for it (NaN for a text that is not a
\* date); limit is a sequence of characters.
AnomalyRouteFills == {[pattern |-> "swing", n |-> 120, dt |-> 20000]}
AnomalyRouteTriples == {<<250, 250, 250>>}
AnomalyRouteTimeSteps == {20000}
RouteTypes == {"VOLTAGE_DEVIATION", "FOO"}
RoutePhases == {"", "L1", "L4"}
NoText == [text |-> "", time |-> -2000000000]
NotADate == [text |-> "abc", time |-> -2000000000]
AnomalyRouteFrom ==
  {NoText, [text |-> "1970-01-01T00:20:00.000Z", time |-> 1200000]}
AnomalyRouteTo ==
  {NoText, NotADate, [text |-> "1970-01-01T00:30:00.000Z", time |-> 1800000]}
LimitTexts ==
  {<<>>, <<"a", "b", "c">>, <<"0">>, <<"-", "5">>, <<"5">>,
   <<"9", "9", "9", "9", "9">>}

\* Requests to GET /api/voltage/history, to a store that is pushed readings
\* one window apart: from and to are left out, not a date, or an instant at
\* which a reading is pushed (so that `now`, the time of the last reading, can
\* equal them); points and interval as the route reads them.
HistoryRouteTriples == {<<230, 230, 230>>, <<250, 0, 230>>}
HistoryRouteTimeSteps == {600000}
HistoryRouteFrom ==
  {NoText, NotADate, [text |-> "1970-01-01T00:10:00.000Z", time |-> 600000]}
HistoryRouteTo ==
  {NoText, NotADate, [text |-> "1970-01-01T00:00:00.000Z", time |-> 0],
   [text |-> "1970-01-01T00:10:00.000Z", time |-> 600000],
   [text |-> "1970-01-01T00:20:00.000Z", time |-> 1200000]}
HistoryRoutePoints == {<<>>, <<"1">>}
HistoryRouteIntervals == {"", "raw", "10min"}

\* The timestamps of readings that reach a window manager in any order: two
\* in the slot from 0, one in each of the next two slots.
LateTimes == {0, 300000, 600000, 1200000}
LateTriples == {<<230, 230, 230>>, <<250, 0, 230>>}

\* The voltages that are classified, in millivolts: around the zero
\* threshold and around both bounds in steps of 1 mV, and some far from
\* them (a negative one too).
ClassifiedVoltages ==
  (9990..10010) \cup (219990..220010) \cup (239990..240010)
    \cup {-5000, 0, 230000, 400000}

\* The voltages of the readings pushed to a store that is asked for its
\* latest reading - a different class of voltage on every phase - and the gap
\* between them.
LatestRouteTriples == {<<230, 230, 230>>, <<0, 250, 220>>, <<241, 9, 10>>}
LatestRouteTimeSteps == {1000}

\* The voltages of the readings pushed to a store whose window manager is
\* flushed as well, and the gaps between their timestamps: 1 ms, and 600 s
\* (one window).
FlushingTriples == {<<230, 230, 230>>, <<250, 0, 230>>}
FlushingTimeSteps == {1, 600000}

\* ------------------------------------------------------- config/eso.ts: ESO
ESO_NOMINAL_VOLTAGE_1PH == 230
ESO_VOLTAGE_TOLERANCE == 10
ESO_VOLTAGE_MIN_1PH == 220
ESO_VOLTAGE_MAX_1PH == 240
ESO_WINDOW_MINUTES == 10
ESO_WINDOW_SECONDS == 600
ESO_WINDOW_OOB_MAX_SECONDS == 30
ESO_LONG_INTERRUPTION_SECONDS == 180
ESO_WEEKLY_COMPLIANCE_PCT == 95
ESO_VOLTAGE_ZERO_THRESHOLD == 10

PHASES == <<"L1", "L2", "L3">>
Phase == {"L1", "L2", "L3"}

\* ------------------------------------------------------------ representation
Null == -1
Infinity == 1000000000

\* x seconds (or volts) as a fixed-point number with three decimals
Fixed3(x) == x * 1000

VARIABLES
  state,               \* AnomalyTracker.state : Phase -> PhaseState
  currentWindowStart,  \* WindowManager.currentWindowStart
  buffer,              \* WindowManager.buffer
  addCalls,            \* calls of WindowManager.addReading so far
  emittedSamples,      \* sum of sample_count over the windows it returned
  readings,            \* VoltageState._readings
  windows,             \* VoltageState._windows
  anomalies,           \* VoltageState._anomalies
  latest,              \* VoltageState._latest
  lastOp,              \* the operation that produced this state
  lastReading,         \* its argument (Null when it takes none)
  retAnomalies,        \* anomalies returned by processReading / pushReading
  retWindow,           \* window returned by addReading / flush / pushReading
  nReadings,           \* readings fed so far
  clock,               \* timestamp of the last reading fed
  hist,                \* per-phase history of the readings fed to the tracker
  state2,              \* a second AnomalyTracker, fed in step with the first
  lastReading2,        \* the reading it was fed
  retAnomalies2,       \* the anomalies it returned
  agree,               \* phases on which both trackers saw the same voltages
  cleared,             \* sub-machines the reset just before cleared (or Null)
  call,                \* a call of a function or of a query method: its arguments
  result,              \* the value that call returned
  held,                \* the list a reader holds from its last query
  lastPushed           \* the reading of the last pushReading since reset

vars == <<state, currentWindowStart, buffer, addCalls, emittedSamples,
          readings, windows, anomalies,
          latest, lastOp, lastReading, retAnomalies, retWindow, nReadings,
          clock, hist, state2, lastReading2, retAnomalies2, agree,
          cleared, call, result, held, lastPushed>>

trackerVars == <<state, hist, cleared>>
wmVars == <<currentWindowStart, buffer, addCalls, emittedSamples>>
storeVars == <<readings, windows, anomalies, latest>>
pairVars == <<state2, lastReading2, retAnomalies2, agree>>
callVars == <<call, result>>
readerVars == <<held, lastPushed>>

\* ------------------------------------------------------- voltageAnalysis.ts
\* A voltage is a number; the two predicates are given here for a voltage
\* with three decimals (the integer 1000 * volts), and below for a whole
\* number of volts.
\* Mutant: the bounds themselves are out of bounds.
isVoltageInBoundsFixed3_Open(voltage) ==
  /\ voltage > Fixed3(ESO_VOLTAGE_MIN_1PH)
  /\ voltage < Fixed3(ESO_VOLTAGE_MAX_1PH)

\* voltage >= ESO.VOLTAGE_MIN_1PH && voltage <= ESO.VOLTAGE_MAX_1PH
isVoltageInBoundsFixed3(voltage) ==
  /\ voltage >= Fixed3(ESO_VOLTAGE_MIN_1PH)
  /\ voltage <= Fixed3(ESO_VOLTAGE_MAX_1PH)

\* voltage < ESO.VOLTAGE_ZERO_THRESHOLD
isVoltageZeroFixed3(voltage) == voltage < Fixed3(ESO_VOLTAGE_ZERO_THRESHOLD)

isVoltageInBounds(voltage) == isVoltageInBoundsFixed3(Fixed3(voltage))

isVoltageZero(voltage) == isVoltageZeroFixed3(Fixed3(voltage))

\* Mutant: phase L2 reads the voltage of L1.
getVoltageForPhase_L2FromL1(reading, phase) ==
  CASE phase = "L1" -> reading.voltage_l1
    [] phase = "L2" -> reading.voltage_l1
    [] phase = "L3" -> reading.voltage_l3

getVoltageForPhase(reading, phase) ==
  CASE phase = "L1" -> reading.voltage_l1
    [] phase = "L2" -> reading.voltage_l2
    [] phase = "L3" -> reading.voltage_l3

\* Mutant: a duration of exactly the threshold counts as long.
classifyInterruption_AtLeast(durationSeconds) ==
  IF durationSeconds >= Fixed3(ESO_LONG_INTERRUPTION_SECONDS)
    THEN [type |-> "LONG_INTERRUPTION", severity |-> "CRITICAL"]
    ELSE [type |-> "SHORT_INTERRUPTION", severity |-> "WARNING"]

classifyInterruption(durationSeconds) ==
  IF durationSeconds > Fixed3(ESO_LONG_INTERRUPTION_SECONDS)
    THEN [type |-> "LONG_INTERRUPTION", severity |-> "CRITICAL"]
    ELSE [type |-> "SHORT_INTERRUPTION", severity |-> "WARNING"]

\* Mutant: the extremes of the interruption are swapped.
createInterruptionAnomaly_Swapped(phase, startedAt, endedAt, recoveryVoltage) ==
  LET durationSeconds == endedAt - startedAt
      c == classifyInterruption(durationSeconds)
  IN  [startedAt |-> startedAt,
       endedAt |-> endedAt,
       phase |-> phase,
       type |-> c.type,
       severity |-> c.severity,
       voltageMin |-> recoveryVoltage,
       voltageMax |-> 0,
       durationSeconds |-> durationSeconds]

createInterruptionAnomaly(phase, startedAt, endedAt, recoveryVoltage) ==
  LET durationSeconds == endedAt - startedAt   \* (ms difference) / 1000, fixed-point
      c == classifyInterruption(durationSeconds)
  IN  [startedAt |-> startedAt,
       endedAt |-> endedAt,
       phase |-> phase,
       type |-> c.type,
       severity |-> c.severity,
       voltageMin |-> 0,
       voltageMax |-> recoveryVoltage,
       durationSeconds |-> durationSeconds]

createDeviationAnomaly(phase, startedAt, voltage) ==
  [startedAt |-> startedAt,
   endedAt |-> Null,
   phase |-> phase,
   type |-> "VOLTAGE_DEVIATION",
   severity |-> "WARNING",
   voltageMin |-> voltage,
   voltageMax |-> voltage,
   durationSeconds |-> Null]

Min2(a, b) == IF a <= b THEN a ELSE b
Max2(a, b) == IF a >= b THEN a ELSE b

\* -------------------------------------------------------- anomalyTracker.ts
InitPhaseState ==
  [interruption |-> [ongoing |-> FALSE, startedAt |-> Null],
   deviation |-> [ongoing |-> FALSE, startedAt |-> Null,
                  voltageMin |-> Infinity, voltageMax |-> -Infinity]]

InitTrackerState == [p \in Phase |-> InitPhaseState]

\* Mutant: a zero reading leaves an ongoing deviation ongoing.
onVoltageZero_KeepDeviation(ps, now) ==
  LET int1 == IF ~ps.interruption.ongoing
                THEN [ongoing |-> TRUE, startedAt |-> now]
                ELSE ps.interruption
  IN  [ps |-> [interruption |-> int1, deviation |-> ps.deviation], out |-> <<>>]

\* Mutant: every zero reading starts the interruption anew.
onVoltageZero_Restart(ps, now) ==
  LET dev1 == IF ps.deviation.ongoing /\ ps.deviation.startedAt # Null
                THEN [ps.deviation EXCEPT !.ongoing = FALSE, !.startedAt = Null]
                ELSE ps.deviation
  IN  [ps |-> [interruption |-> [ongoing |-> TRUE, startedAt |-> now],
               deviation |-> dev1],
       out |-> <<>>]

\* Lines 71-80: the voltage is gone.
onVoltageZero(ps, now) ==
  LET int1 == IF ~ps.interruption.ongoing
                THEN [ongoing |-> TRUE, startedAt |-> now]
                ELSE ps.interruption
      dev1 == IF ps.deviation.ongoing /\ ps.deviation.startedAt # Null
                THEN [ps.deviation EXCEPT !.ongoing = FALSE, !.startedAt = Null]
                ELSE ps.deviation
  IN  [ps |-> [interruption |-> int1, deviation |-> dev1], out |-> <<>>]

\* Mutant: a recovery is reported only once the voltage is back in bounds.
onVoltagePresent_InBoundsOnly(ps, phase, voltage, now) ==
  IF ps.interruption.ongoing /\ ps.interruption.startedAt # Null
     /\ isVoltageInBounds(voltage)
    THEN [ps |-> [ps EXCEPT !.interruption = [ongoing |-> FALSE, startedAt |-> Null]],
          out |-> <<createInterruptionAnomaly(phase, ps.interruption.startedAt,
                                              now, voltage)>>]
    ELSE [ps |-> ps, out |-> <<>>]

\* Lines 83-95: the voltage is present; an ongoing interruption has just
\* recovered.
onVoltagePresent(ps, phase, voltage, now) ==
  IF ps.interruption.ongoing /\ ps.interruption.startedAt # Null
    THEN [ps |-> [ps EXCEPT !.interruption = [ongoing |-> FALSE, startedAt |-> Null]],
          out |-> <<createInterruptionAnomaly(phase, ps.interruption.startedAt,
                                              now, voltage)>>]
    ELSE [ps |-> ps, out |-> <<>>]

\* Mutant: every out-of-bounds reading opens a deviation.
onOutOfBounds_Reopen(dev, phase, voltage, now) ==
  [dev |-> [ongoing |-> TRUE, startedAt |-> now,
            voltageMin |-> voltage, voltageMax |-> voltage],
   out |-> <<createDeviationAnomaly(phase, now, voltage)>>]

\* Mutant: an ongoing deviation tracks its minimum only.
onOutOfBounds_KeepMax(dev, phase, voltage, now) ==
  IF ~dev.ongoing
    THEN [dev |-> [ongoing |-> TRUE, startedAt |-> now,
                   voltageMin |-> voltage, voltageMax |-> voltage],
          out |-> <<createDeviationAnomaly(phase, now, voltage)>>]
    ELSE [dev |-> [dev EXCEPT !.voltageMin = Min2(dev.voltageMin, voltage)],
          out |-> <<>>]

\* Lines 99-111: the voltage is present and out of bounds.
onOutOfBounds(dev, phase, voltage, now) ==
  IF ~dev.ongoing
    THEN [dev |-> [ongoing |-> TRUE, startedAt |-> now,
                   voltageMin |-> voltage, voltageMax |-> voltage],
          out |-> <<createDeviationAnomaly(phase, now, voltage)>>]
    ELSE [dev |-> [dev EXCEPT !.voltageMin = Min2(dev.voltageMin, voltage),
                              !.voltageMax = Max2(dev.voltageMax, voltage)],
          out |-> <<>>]

\* Mutant: the closing anomaly starts at the reading that closes it.
onInBounds_StartNow(dev, phase, now) ==
  IF dev.ongoing /\ dev.startedAt # Null
    THEN [dev |-> [ongoing |-> FALSE, startedAt |-> Null,
                   voltageMin |-> Infinity, voltageMax |-> -Infinity],
          out |-> <<[startedAt |-> now,
                     endedAt |-> now,
                     phase |-> phase,
                     type |-> "VOLTAGE_DEVIATION",
                     severity |-> "WARNING",
                     voltageMin |-> dev.voltageMin,
                     voltageMax |-> dev.voltageMax,
                     durationSeconds |-> now - dev.startedAt]>>]
    ELSE [dev |-> dev, out |-> <<>>]

\* Lines 113-135: the voltage is back in bounds.
onInBounds(dev, phase, now) ==
  IF dev.ongoing /\ dev.startedAt # Null
    THEN [dev |-> [ongoing |-> FALSE, startedAt |-> Null,
                   voltageMin |-> Infinity, voltageMax |-> -Infinity],
          out |-> <<[startedAt |-> dev.startedAt,
                     endedAt |-> now,
                     phase |-> phase,
                     type |-> "VOLTAGE_DEVIATION",
                     severity |-> "WARNING",
                     voltageMin |-> dev.voltageMin,
                     voltageMax |-> dev.voltageMax,
                     durationSeconds |-> now - dev.startedAt]>>]
    ELSE [dev |-> dev, out |-> <<>>]

\* Mutant: the deviation logic runs before the interruption logic.
ProcessPhase_DeviationFirst(ps, phase, voltage, now) ==
  IF isVoltageZero(voltage)
    THEN onVoltageZero(ps, now)
    ELSE
      LET i == onVoltagePresent(ps, phase, voltage, now)
          d == IF ~isVoltageInBounds(voltage)
                 THEN onOutOfBounds(i.ps.deviation, phase, voltage, now)
                 ELSE onInBounds(i.ps.deviation, phase, now)
      IN  [ps |-> [interruption |-> i.ps.interruption, deviation |-> d.dev],
           out |-> d.out \o i.out]

\* Body of the loop of processReading for one phase: the new PhaseState and
\* the anomalies pushed, in push order.
ProcessPhase(ps, phase, voltage, now) ==
  IF isVoltageZero(voltage)
    THEN onVoltageZero(ps, now)
    ELSE
      LET i == onVoltagePresent(ps, phase, voltage, now)
          d == IF ~isVoltageInBounds(voltage)
                 THEN onOutOfBounds(i.ps.deviation, phase, voltage, now)
                 ELSE onInBounds(i.ps.deviation, phase, now)
      IN  [ps |-> [interruption |-> i.ps.interruption, deviation |-> d.dev],
           out |-> i.out \o d.out]

\* processReading: the loop over PHASES, from phase number i on.
RECURSIVE ProcessFrom(_, _, _, _)
ProcessFrom(st, out, reading, i) ==
  IF i > Len(PHASES) THEN [state |-> st, anomalies |-> out]
  ELSE LET phase == PHASES[i]
           r == ProcessPhase(st[phase], phase,
                             getVoltageForPhase(reading, phase), reading.timestamp)
       IN  ProcessFrom([st EXCEPT ![phase] = r.ps], out \o r.out, reading, i + 1)

processReading(st, reading) == ProcessFrom(st, <<>>, reading, 1)

\* Mutant: only interruptions are reported.
RECURSIVE ActiveFrom_InterruptionsOnly(_, _)
ActiveFrom_InterruptionsOnly(st, i) ==
  IF i > Len(PHASES) THEN <<>>
  ELSE LET phase == PHASES[i]
           ps == st[phase]
           a1 == IF ps.interruption.ongoing /\ ps.interruption.startedAt # Null
                   THEN <<[phase |-> phase, type |-> "interruption",
                           startedAt |-> ps.interruption.startedAt]>>
                   ELSE <<>>
       IN  a1 \o ActiveFrom_InterruptionsOnly(st, i + 1)

RECURSIVE ActiveFrom(_, _)
ActiveFrom(st, i) ==
  IF i > Len(PHASES) THEN <<>>
  ELSE LET phase == PHASES[i]
           ps == st[phase]
           a1 == IF ps.interruption.ongoing /\ ps.interruption.startedAt # Null
                   THEN <<[phase |-> phase, type |-> "interruption",
                           startedAt |-> ps.interruption.startedAt]>>
                   ELSE <<>>
           a2 == IF ps.deviation.ongoing /\ ps.deviation.startedAt # Null
                   THEN <<[phase |-> phase, type |-> "deviation",
                           startedAt |-> ps.deviation.startedAt]>>
                   ELSE <<>>
       IN  a1 \o a2 \o ActiveFrom(st, i + 1)

getActiveAnomalies(st) == ActiveFrom(st, 1)

\* Mutant: reset clears the interruptions and leaves the deviations.
trackerReset_KeepDeviation(st) ==
  [p \in DOMAIN st |->
     [st[p] EXCEPT !.interruption = [ongoing |-> FALSE, startedAt |-> Null]]]

\* reset: every phase gets a fresh PhaseState.
trackerReset(st) == [p \in DOMAIN st |-> InitPhaseState]

\* ------------------------------------------- voltageAnalysis.ts: aggregation
RECURSIVE SumOfSquares(_)
SumOfSquares(samples) ==
  IF samples = <<>> THEN 0
  ELSE Head(samples) * Head(samples) + SumOfSquares(Tail(samples))

\* Largest k in lo..hi with den * k * k <= num (lo satisfies it).
RECURSIVE RootSearch(_, _, _, _)
RootSearch(num, den, lo, hi) ==
  IF lo >= hi THEN lo
  ELSE LET mid == (lo + hi + 1) \div 2
       IN  IF den * mid * mid <= num
             THEN RootSearch(num, den, mid, hi)
             ELSE RootSearch(num, den, lo, mid - 1)

\* Largest digit d in 0..9 with den * (20 * root * d + d * d) <= rem100.
RECURSIVE NextDigit(_, _, _, _)
NextDigit(rem100, den, root, d) ==
  IF d = 0 \/ den * (20 * root * d + d * d) <= rem100 THEN d
  ELSE NextDigit(rem100, den, root, d - 1)

\* Long-hand square root of num / den: from root = floor(10^k * sqrt) and
\* rem = num * 10^2k - den * root^2, `digits` further decimal digits.
RECURSIVE RootDigits(_, _, _, _)
RootDigits(rem, den, root, digits) ==
  IF digits = 0 THEN [root |-> root, rem |-> rem]
  ELSE LET d == NextDigit(100 * rem, den, root, 9)
       IN  RootDigits(100 * rem - den * (20 * root * d + d * d), den,
                      10 * root + d, digits - 1)

\* +Math.sqrt(num / den).toFixed(3), as a fixed-point number with 3 decimals:
\* the square root rounded to the nearest multiple of 0.001.
SqrtFixed3(num, den) ==
  LET r0 == RootSearch(num, den, 0, 1024)
      r3 == RootDigits(num - den * r0 * r0, den, r0, 3)
  IN  IF 4 * r3.rem >= den * (4 * r3.root + 1) THEN r3.root + 1 ELSE r3.root

\* Mutant: the square root is cut off after three decimals.
calculateRms_Truncated(samples) ==
  IF Len(samples) = 0 THEN 0
  ELSE LET num == SumOfSquares(samples)
           den == Len(samples)
           r0 == RootSearch(num, den, 0, 1024)
       IN  RootDigits(num - den * r0 * r0, den, r0, 3).root

\* +calculateRms(samples).toFixed(3)
calculateRms(samples) ==
  IF Len(samples) = 0 THEN 0
  ELSE SqrtFixed3(SumOfSquares(samples), Len(samples))

\* readings.map((r) => r.voltage_lX)
Samples(rs, phase) == [i \in 1..Len(rs) |-> getVoltageForPhase(rs[i], phase)]

\* Mutant: a reading without voltage is not counted as out of bounds.
RECURSIVE OobSeconds_SkipZero(_, _, _)
OobSeconds_SkipZero(rs, phase, pollIntervalSeconds) ==
  IF rs = <<>> THEN 0
  ELSE (IF ~isVoltageInBounds(getVoltageForPhase(Head(rs), phase))
           /\ ~isVoltageZero(getVoltageForPhase(Head(rs), phase))
          THEN pollIntervalSeconds ELSE 0)
       + OobSeconds_SkipZero(Tail(rs), phase, pollIntervalSeconds)

\* The for loop of aggregateWindow, for one phase.
RECURSIVE OobSeconds(_, _, _)
OobSeconds(rs, phase, pollIntervalSeconds) ==
  IF rs = <<>> THEN 0
  ELSE (IF ~isVoltageInBounds(getVoltageForPhase(Head(rs), phase))
          THEN pollIntervalSeconds ELSE 0)
       + OobSeconds(Tail(rs), phase, pollIntervalSeconds)

\* d.setSeconds(0, 0); d.setMinutes(floor(d.getMinutes() / 10) * 10), in a
\* process whose time zone has a fixed offset of a whole number of hours;
\* getWindowStartIn below is the same in a time zone that changes its clocks.
getWindowStart(date) ==
  LET d == date - (date % 60000)
      minutes == (d \div 60000) % 60
  IN  d - (minutes - (minutes \div ESO_WINDOW_MINUTES) * ESO_WINDOW_MINUTES) * 60000

getWindowEnd(windowStart) == windowStart + ESO_WINDOW_SECONDS * 1000

aggregateWindow(rs, windowStart, pollIntervalSeconds) ==
  LET windowEnd == getWindowEnd(windowStart)
  IN  IF Len(rs) = 0
        THEN [windowStart |-> windowStart,
              windowEnd |-> windowEnd,
              sampleCount |-> 0,
              rmsVoltageL1 |-> 0,
              rmsVoltageL2 |-> 0,
              rmsVoltageL3 |-> 0,
              outOfBoundsSecondsL1 |-> ESO_WINDOW_SECONDS,
              outOfBoundsSecondsL2 |-> ESO_WINDOW_SECONDS,
              outOfBoundsSecondsL3 |-> ESO_WINDOW_SECONDS,
              compliantL1 |-> FALSE,
              compliantL2 |-> FALSE,
              compliantL3 |-> FALSE]
        ELSE
          LET oobL1 == OobSeconds(rs, "L1", pollIntervalSeconds)
              oobL2 == OobSeconds(rs, "L2", pollIntervalSeconds)
              oobL3 == OobSeconds(rs, "L3", pollIntervalSeconds)
              maxOob == ESO_WINDOW_OOB_MAX_SECONDS
          IN [windowStart |-> windowStart,
              windowEnd |-> windowEnd,
              sampleCount |-> Len(rs),
              rmsVoltageL1 |-> calculateRms(Samples(rs, "L1")),
              rmsVoltageL2 |-> calculateRms(Samples(rs, "L2")),
              rmsVoltageL3 |-> calculateRms(Samples(rs, "L3")),
              outOfBoundsSecondsL1 |-> oobL1,
              outOfBoundsSecondsL2 |-> oobL2,
              outOfBoundsSecondsL3 |-> oobL3,
              compliantL1 |-> oobL1 <= maxOob,
              compliantL2 |-> oobL2 <= maxOob,
              compliantL3 |-> oobL3 <= maxOob]

\* ------------------------------------- voltageAnalysis.ts: weekly compliance
\* A percentage as returned is a fixed-point number with two decimals, i.e. the
\* integer 100 * percent.
\* Mutant: the compliant windows of every phase are counted on L1.
CompliantCount_L1(ws, phase) ==
  Cardinality({i \in 1..Len(ws) : ws[i].compliantL1})

\* windows.filter((w) => w.compliantLX).length
CompliantCount(ws, phase) ==
  Cardinality({i \in 1..Len(ws) :
                 CASE phase = "L1" -> ws[i].compliantL1
                   [] phase = "L2" -> ws[i].compliantL2
                   [] phase = "L3" -> ws[i].compliantL3})

\* +((count / total) * 100).toFixed(2): the nearest multiple of 0.01.
PctFixed2(count, total) == (20000 * count + total) \div (2 * total)

\* Mutant: exactly 95 % is not enough.
MeetsWeeklyPct_Above(count, total) ==
  100 * count > ESO_WEEKLY_COMPLIANCE_PCT * total

\* (count / total) * 100 >= ESO.WEEKLY_COMPLIANCE_PCT
MeetsWeeklyPct(count, total) ==
  100 * count >= ESO_WEEKLY_COMPLIANCE_PCT * total

calculateWeeklyCompliance(ws, weekStart) ==
  LET weekEnd == weekStart + 7 * 24 * 3600 * 1000
      total == Len(ws)
  IN  IF total = 0
        THEN [weekStart |-> weekStart,
              weekEnd |-> weekEnd,
              totalWindows |-> 0,
              compliantWindowsL1 |-> 0,
              compliantWindowsL2 |-> 0,
              compliantWindowsL3 |-> 0,
              compliancePctL1 |-> 0,
              compliancePctL2 |-> 0,
              compliancePctL3 |-> 0,
              overallCompliant |-> FALSE]
        ELSE
          LET compliantL1 == CompliantCount(ws, "L1")
              compliantL2 == CompliantCount(ws, "L2")
              compliantL3 == CompliantCount(ws, "L3")
          IN [weekStart |-> weekStart,
              weekEnd |-> weekEnd,
              totalWindows |-> total,
              compliantWindowsL1 |-> compliantL1,
              compliantWindowsL2 |-> compliantL2,
              compliantWindowsL3 |-> compliantL3,
              compliancePctL1 |-> PctFixed2(compliantL1, total),
              compliancePctL2 |-> PctFixed2(compliantL2, total),
              compliancePctL3 |-> PctFixed2(compliantL3, total),
              overallCompliant |-> /\ MeetsWeeklyPct(compliantL1, total)
                                   /\ MeetsWeeklyPct(compliantL2, total)
                                   /\ MeetsWeeklyPct(compliantL3, total)]

\* ----------------------------------------------------------- windowManager.ts
\* A value of type RmsWindowResult | null is the sequence of at most one
\* window: <<>> is null.
pollIntervalSeconds == 10

\* Mutant: the reading that opens a new window is not buffered when the
\* window before it is closed.
addReading_DropFirst(cws, buf, reading) ==
  LET windowStart == getWindowStart(reading.timestamp)
  IN  IF cws = Null
        THEN [currentWindowStart |-> windowStart, buffer |-> <<reading>>,
              ret |-> <<>>]
        ELSE IF windowStart # cws
          THEN [currentWindowStart |-> windowStart, buffer |-> <<>>,
                ret |-> <<aggregateWindow(buf, cws, pollIntervalSeconds)>>]
          ELSE [currentWindowStart |-> cws, buffer |-> Append(buf, reading),
                ret |-> <<>>]

\* Mutant: the reading that closes a window is aggregated into it.
addReading_Late(cws, buf, reading) ==
  LET windowStart == getWindowStart(reading.timestamp)
  IN  IF cws = Null
        THEN [currentWindowStart |-> windowStart, buffer |-> <<reading>>,
              ret |-> <<>>]
        ELSE IF windowStart # cws
          THEN [currentWindowStart |-> windowStart, buffer |-> <<reading>>,
                ret |-> <<aggregateWindow(Append(buf, reading), cws,
                                          pollIntervalSeconds)>>]
          ELSE [currentWindowStart |-> cws, buffer |-> Append(buf, reading),
                ret |-> <<>>]

\* addReading: the new currentWindowStart and buffer, and the value returned.
addReading(cws, buf, reading) ==
  LET windowStart == getWindowStart(reading.timestamp)
  IN  IF cws = Null
        THEN [currentWindowStart |-> windowStart, buffer |-> <<reading>>,
              ret |-> <<>>]
        ELSE IF windowStart # cws
          THEN [currentWindowStart |-> windowStart, buffer |-> <<reading>>,
                ret |-> <<aggregateWindow(buf, cws, pollIntervalSeconds)>>]
          ELSE [currentWindowStart |-> cws, buffer |-> Append(buf, reading),
                ret |-> <<>>]

\* Mutant: flush empties the buffer and leaves the window open.
flush_KeepOpen(cws, buf) ==
  IF cws = Null \/ Len(buf) = 0
    THEN [currentWindowStart |-> cws, buffer |-> buf, ret |-> <<>>]
    ELSE [currentWindowStart |-> cws, buffer |-> <<>>,
          ret |-> <<aggregateWindow(buf, cws, pollIntervalSeconds)>>]

\* Mutant: flush aggregates whatever the buffer holds, be it nothing.
flush_Always(cws, buf) ==
  [currentWindowStart |-> Null, buffer |-> <<>>,
   ret |-> <<aggregateWindow(buf, IF cws = Null THEN 0 ELSE cws,
                             pollIntervalSeconds)>>]

flush(cws, buf) ==
  IF cws = Null \/ Len(buf) = 0
    THEN [currentWindowStart |-> cws, buffer |-> buf, ret |-> <<>>]
    ELSE [currentWindowStart |-> Null, buffer |-> <<>>,
          ret |-> <<aggregateWindow(buf, cws, pollIntervalSeconds)>>]

bufferSize == Len(buffer)

\* sample_count of a value of type RmsWindowResult | null (0 for null)
SampleCountOf(ret) == IF ret = <<>> THEN 0 ELSE ret[1].sampleCount

\* ------------------------------------------------------------------ readings
\* The readings with timestamp ts and voltages in triples.
ReadingsAt(ts, triples) ==
  {[timestamp |-> ts, voltage_l1 |-> t[1], voltage_l2 |-> t[2],
    voltage_l3 |-> t[3]] : t \in triples}

NoReading == [timestamp |-> Null, voltage_l1 |-> Null, voltage_l2 |-> Null,
              voltage_l3 |-> Null]

\* No function has been called.
NoCall == [op |-> "none"]

\* The voltage of a reading on a phase, and the classes of a voltage in the
\* vocabulary of the state machines.
VoltageOf(reading, phase) ==
  IF phase = "L1" THEN reading.voltage_l1
  ELSE IF phase = "L2" THEN reading.voltage_l2
  ELSE reading.voltage_l3

IsZERO(v) == v < 10
IsIB(v) == 220 <= v /\ v <= 240
IsOOB(v) == ~IsIB(v) /\ ~IsZERO(v)

\* History of one phase of the reading stream since the tracker was created
\* or reset:
\*   zeroRun   timestamp of the first reading of the current run of ZERO
\*             readings (Null when the last reading was not ZERO);
\*   oobRun    timestamp of the first reading of the current run of OOB
\*             readings (Null when the last reading was not OOB);
\*   episode   the voltages of the current run of OOB readings;
\*   endedBy   the class of the reading that ended the last run of OOB
\*             readings ("none" before any run has ended);
\*   lastOpen  started_at of the last opening deviation anomaly emitted;
\*   paired    a closing deviation anomaly with started_at = lastOpen has
\*             been emitted since;
\*   surplus   the number of interruption anomalies emitted less the
\*             number of readings that were not ZERO and came right after
\*             a ZERO reading.
InitPhaseHist ==
  [zeroRun |-> Null, oobRun |-> Null, episode |-> {}, endedBy |-> "none",
   lastOpen |-> Null, paired |-> FALSE, surplus |-> 0]

InitHist == [p \in Phase |-> InitPhaseHist]

Range(seq) == {seq[i] : i \in 1..Len(seq)}

HistStep(h, phase, reading, out) ==
  LET v == VoltageOf(reading, phase)
      ts == reading.timestamp
      devs == {a \in Range(out) : a.phase = phase /\ a.type = "VOLTAGE_DEVIATION"}
      opens == {a \in devs : a.endedAt = Null}
      closes == {a \in devs : a.endedAt # Null}
  IN  [zeroRun |-> IF IsZERO(v) THEN (IF h.zeroRun = Null THEN ts ELSE h.zeroRun)
                   ELSE Null,
       oobRun |-> IF IsOOB(v) THEN (IF h.oobRun = Null THEN ts ELSE h.oobRun)
                  ELSE Null,
       episode |-> IF IsOOB(v) THEN h.episode \cup {v} ELSE {},
       endedBy |-> IF h.oobRun # Null /\ IsZERO(v) THEN "ZERO"
                   ELSE IF h.oobRun # Null /\ IsIB(v) THEN "IB"
                   ELSE h.endedBy,
       lastOpen |-> IF opens # {} THEN (CHOOSE a \in opens : TRUE).startedAt
                    ELSE h.lastOpen,
       paired |-> IF opens # {} THEN FALSE
                  ELSE h.paired \/ \E a \in closes : a.startedAt = h.lastOpen,
       surplus |->
         h.surplus
           + Cardinality({i \in 1..Len(out) :
                            /\ out[i].phase = phase
                            /\ out[i].type # "VOLTAGE_DEVIATION"})
           - (IF h.zeroRun # Null /\ ~IsZERO(v) THEN 1 ELSE 0)]

\* ---------------------------------------------------- voltageState.ts: data
MAX_READINGS == 86400
MAX_WINDOWS == 2016
MAX_ANOMALIES == 1000

\* Mutant: the slice keeps one entry too many.
SliceLast_OneMore(seq, n) ==
  IF Len(seq) > n THEN SubSeq(seq, Len(seq) - n, Len(seq)) ELSE seq

\* Mutant: the slice keeps the eldest entries.
SliceLast_Eldest(seq, n) ==
  IF Len(seq) > n THEN SubSeq(seq, 1, n) ELSE seq

\* seq.slice(-n)
SliceLast(seq, n) ==
  IF Len(seq) > n THEN SubSeq(seq, Len(seq) - n + 1, Len(seq)) ELSE seq

\* The array a reader got from a query: the query, the array's elements now,
\* its elements when the query returned, and whether it is the very array the
\* store keeps in its field (getReadings, getWindows and getAnomalies return
\* the field itself when no filter is given).
NothingHeld == [op |-> "none", list |-> <<>>, returned |-> <<>>, live |-> FALSE]

\* array.push(...) on the store's array is seen through every reference to it;
\* field = field.slice(-MAX) makes the field a new array and leaves the old one
\* to its holders.
heldAfterAppend(h, added, max) ==
  IF h.live
    THEN [h EXCEPT !.list = h.list \o added,
                   !.live = ~(Len(h.list \o added) > max)]
    ELSE h

heldAfterPush(h, reading, newAnomalies, newWindow) ==
  CASE h.op = "getReadings" -> heldAfterAppend(h, <<reading>>, MAX_READINGS)
    [] h.op = "getAnomalies" -> heldAfterAppend(h, newAnomalies, MAX_ANOMALIES)
    [] h.op = "getWindows" -> heldAfterAppend(h, newWindow, MAX_WINDOWS)
    [] OTHER -> h

\* reset assigns fresh arrays to the fields.
heldAfterReset(h) == [h EXCEPT !.live = FALSE]

\* ---------------------------------------------------------------------- Init
InitProgram ==
  /\ state = InitTrackerState
  /\ currentWindowStart = Null
  /\ buffer = <<>>
  /\ addCalls = 0
  /\ emittedSamples = 0
  /\ readings = <<>>
  /\ windows = <<>>
  /\ anomalies = <<>>
  /\ latest = NoReading
  /\ lastOp = "init"
  /\ lastReading = NoReading
  /\ retAnomalies = <<>>
  /\ retWindow = <<>>
  /\ nReadings = 0
  /\ clock = 0
  /\ hist = InitHist
  /\ state2 = InitTrackerState
  /\ lastReading2 = NoReading
  /\ retAnomalies2 = <<>>
  /\ agree = Phase
  /\ cleared = Null
  /\ held = NothingHeld
  /\ lastPushed = NoReading

Init ==
  /\ InitProgram
  /\ call = NoCall
  /\ result = Null

\* The next readings of the stream: timestamps do not decrease.
NextReadings(steps, triples) ==
  UNION {ReadingsAt(clock + step, triples) : step \in steps}

\* --------------------------------------------------- AnomalyTracker actions
\* tracker.processReading(reading), with the history of the stream
TrackerStep(reading) ==
  LET r == processReading(state, reading)
  IN  /\ state' = r.state
      /\ retAnomalies' = r.anomalies
      /\ hist' = [p \in Phase |-> HistStep(hist[p], p, reading, r.anomalies)]
      /\ cleared' = IF lastOp \in {"reset", "storeReset"} THEN cleared ELSE Null

\* tracker.reset()
TrackerResetStep ==
  /\ state' = trackerReset(state)
  /\ hist' = InitHist
  /\ cleared' = Len(getActiveAnomalies(state))

ProcessReading(reading) ==
  /\ nReadings < MaxReadings
  /\ TrackerStep(reading)
  /\ lastOp' = "processReading"
  /\ lastReading' = reading
  /\ retWindow' = <<>>
  /\ nReadings' = nReadings + 1
  /\ clock' = reading.timestamp
  /\ UNCHANGED <<wmVars, storeVars, pairVars, callVars, readerVars>>

TrackerReset ==
  /\ TrackerResetStep
  /\ lastOp' = "reset"
  /\ lastReading' = NoReading
  /\ retAnomalies' = <<>>
  /\ retWindow' = <<>>
  /\ UNCHANGED <<nReadings, clock, wmVars, storeVars, pairVars, callVars,
                 readerVars>>

NextTracker ==
  \/ \E reading \in NextReadings(TimeSteps, VoltageTriples) : ProcessReading(reading)
  \/ TrackerReset

SpecTracker == Init /\ [][NextTracker]_vars

\* Two trackers fed readings with the same timestamps.
ProcessPair(reading, reading2) ==
  /\ nReadings < MaxPairReadings
  /\ reading2.timestamp = reading.timestamp
  /\ TrackerStep(reading)
  /\ LET r2 == processReading(state2, reading2)
     IN  /\ state2' = r2.state
         /\ retAnomalies2' = r2.anomalies
  /\ lastReading2' = reading2
  /\ agree' = {p \in agree : VoltageOf(reading, p) = VoltageOf(reading2, p)}
  /\ lastOp' = "processPair"
  /\ lastReading' = reading
  /\ retWindow' = <<>>
  /\ nReadings' = nReadings + 1
  /\ clock' = reading.timestamp
  /\ UNCHANGED <<wmVars, storeVars, callVars, readerVars>>

NextPair ==
  \E reading \in NextReadings(PairTimeSteps, VoltageTriples) :
    \E reading2 \in NextReadings(PairTimeSteps, OtherTriples) :
      ProcessPair(reading, reading2)

SpecPair == Init /\ [][NextPair]_vars

\* ---------------------------------------------------- WindowManager actions
\* windowManager.addReading(reading)
WindowStep(reading) ==
  LET r == addReading(currentWindowStart, buffer, reading)
  IN  /\ currentWindowStart' = r.currentWindowStart
      /\ buffer' = r.buffer
      /\ retWindow' = r.ret
      /\ addCalls' = addCalls + 1
      /\ emittedSamples' = emittedSamples + SampleCountOf(r.ret)

AddReading(reading) ==
  /\ nReadings < MaxReadings
  /\ WindowStep(reading)
  /\ lastOp' = "addReading"
  /\ lastReading' = reading
  /\ retAnomalies' = <<>>
  /\ nReadings' = nReadings + 1
  /\ clock' = reading.timestamp
  /\ UNCHANGED <<trackerVars, storeVars, pairVars, callVars, readerVars>>

Flush ==
  /\ LET r == flush(currentWindowStart, buffer)
     IN  /\ currentWindowStart' = r.currentWindowStart
         /\ buffer' = r.buffer
         /\ retWindow' = r.ret
         /\ emittedSamples' = emittedSamples + SampleCountOf(r.ret)
  /\ addCalls' = addCalls
  /\ lastOp' = "flush"
  /\ lastReading' = NoReading
  /\ retAnomalies' = <<>>
  /\ UNCHANGED <<nReadings, clock, trackerVars, storeVars, pairVars, callVars,
                 readerVars>>

NextWindow ==
  \/ \E reading \in NextReadings(WindowTimeSteps, WindowTriples) : AddReading(reading)
  \/ Flush

SpecWindow == Init /\ [][NextWindow]_vars

\* A window manager whose readings arrive in any order.
NextLate ==
  \E ts \in LateTimes : \E reading \in ReadingsAt(ts, LateTriples) :
    AddReading(reading)

SpecLate == Init /\ [][NextLate]_vars

\* ------------------------------------------------------------ voltageState.ts
\* Mutant: the reading is given to the window manager a second time.
PushReading_Twice(reading) ==
  /\ nReadings < MaxReadings
  /\ latest' = reading
  /\ readings' = SliceLast(Append(readings, reading), MAX_READINGS)
  /\ TrackerStep(reading)
  /\ anomalies' = SliceLast(anomalies \o retAnomalies', MAX_ANOMALIES)
  /\ LET a1 == addReading(currentWindowStart, buffer, reading)
         a2 == addReading(a1.currentWindowStart, a1.buffer, reading)
     IN  /\ currentWindowStart' = a2.currentWindowStart
         /\ buffer' = a2.buffer
         /\ retWindow' = a1.ret
         /\ addCalls' = addCalls + 2
         /\ emittedSamples' = emittedSamples + SampleCountOf(a1.ret)
                                + SampleCountOf(a2.ret)
  /\ windows' = IF retWindow' # <<>>
                  THEN SliceLast(windows \o retWindow', MAX_WINDOWS)
                  ELSE windows
  /\ lastOp' = "pushReading"
  /\ lastReading' = reading
  /\ nReadings' = nReadings + 1
  /\ clock' = reading.timestamp
  /\ held' = heldAfterPush(held, reading, retAnomalies', retWindow')
  /\ lastPushed' = reading
  /\ UNCHANGED <<pairVars, callVars>>

\* voltageState.pushReading(reading)
PushReading(reading) ==
  /\ nReadings < MaxReadings
  /\ latest' = reading
  /\ readings' = SliceLast(Append(readings, reading), MAX_READINGS)
  /\ TrackerStep(reading)
  /\ anomalies' = SliceLast(anomalies \o retAnomalies', MAX_ANOMALIES)
  /\ WindowStep(reading)
  /\ windows' = IF retWindow' # <<>>
                  THEN SliceLast(windows \o retWindow', MAX_WINDOWS)
                  ELSE windows
  /\ lastOp' = "pushReading"
  /\ lastReading' = reading
  /\ nReadings' = nReadings + 1
  /\ clock' = reading.timestamp
  /\ held' = heldAfterPush(held, reading, retAnomalies', retWindow')
  /\ lastPushed' = reading
  /\ UNCHANGED <<pairVars, callVars>>

\* voltageState.reset()
StoreReset ==
  /\ readings' = <<>>
  /\ windows' = <<>>
  /\ anomalies' = <<>>
  /\ latest' = NoReading
  /\ TrackerResetStep
  /\ lastOp' = "storeReset"
  /\ lastReading' = NoReading
  /\ retAnomalies' = <<>>
  /\ retWindow' = <<>>
  /\ held' = heldAfterReset(held)
  /\ lastPushed' = NoReading
  /\ UNCHANGED <<nReadings, clock, wmVars, pairVars, callVars>>

Next ==
  \/ \E reading \in NextReadings(WindowTimeSteps, WindowTriples) : PushReading(reading)
  \/ StoreReset

Spec == Init /\ [][Next]_vars

\* A store whose window manager (a public field) is flushed as well.
NextFlushing ==
  \/ \E reading \in NextReadings(FlushingTimeSteps, FlushingTriples) :
       PushReading(reading)
  \/ StoreReset
  \/ Flush

SpecFlushing == Init /\ [][NextFlushing]_vars

\* ------------------------------------------------- voltageState.ts: readers
\* getReadings(from, to): the field itself when no bound is given, a filtered
\* copy otherwise.
getReadings(rs, from, to) ==
  LET r1 == IF from # Null
              THEN SelectSeq(rs, LAMBDA r : r.timestamp >= from) ELSE rs
  IN  IF to # Null THEN SelectSeq(r1, LAMBDA r : r.timestamp <= to) ELSE r1

\* Mutant: every window that overlaps the range is returned.
getWindows_Overlapping(ws, from, to) ==
  LET r1 == IF from # Null
              THEN SelectSeq(ws, LAMBDA w : w.windowEnd >= from) ELSE ws
  IN  IF to # Null THEN SelectSeq(r1, LAMBDA w : w.windowStart <= to) ELSE r1

\* getWindows(from, to)
getWindows(ws, from, to) ==
  LET r1 == IF from # Null
              THEN SelectSeq(ws, LAMBDA w : w.windowStart >= from) ELSE ws
  IN  IF to # Null THEN SelectSeq(r1, LAMBDA w : w.windowEnd <= to) ELSE r1

\* Mutant: `to` is compared with endedAt.
getAnomalies_EndedAt(as, type, phase, from, to) ==
  LET r1 == IF type # "" THEN SelectSeq(as, LAMBDA a : a.type = type) ELSE as
      r2 == IF phase # "" THEN SelectSeq(r1, LAMBDA a : a.phase = phase) ELSE r1
      r3 == IF from # Null
              THEN SelectSeq(r2, LAMBDA a : a.startedAt >= from) ELSE r2
  IN  IF to # Null THEN SelectSeq(r3, LAMBDA a : a.endedAt <= to) ELSE r3

\* getAnomalies({type, phase, from, to})
getAnomalies(as, type, phase, from, to) ==
  LET r1 == IF type # "" THEN SelectSeq(as, LAMBDA a : a.type = type) ELSE as
      r2 == IF phase # "" THEN SelectSeq(r1, LAMBDA a : a.phase = phase) ELSE r1
      r3 == IF from # Null
              THEN SelectSeq(r2, LAMBDA a : a.startedAt >= from) ELSE r2
  IN  IF to # Null THEN SelectSeq(r3, LAMBDA a : a.startedAt <= to) ELSE r3

\* A reader calls a query method: the store is left as it is.
Query(op, args, value) ==
  /\ call' = args
  /\ result' = value
  /\ lastOp' = op
  /\ lastReading' = NoReading
  /\ retAnomalies' = <<>>
  /\ retWindow' = <<>>
  /\ UNCHANGED <<trackerVars, wmVars, storeVars, nReadings, clock, pairVars,
                 lastPushed>>

\* The reader holds the array the query returned; it is the store's own array
\* when no filter made a copy.
Holds(op, value, filtered) ==
  held' = [op |-> op, list |-> value, returned |-> value, live |-> ~filtered]

\* Mutant: latest is read from the head of the reading buffer.
Latest_Eldest ==
  /\ Query("latest", [op |-> "latest"],
           IF readings = <<>> THEN NoReading ELSE readings[1])
  /\ UNCHANGED held

\* voltageState.latest
Latest ==
  /\ Query("latest", [op |-> "latest"], latest)
  /\ UNCHANGED held

GetReadings(from, to) ==
  /\ Query("getReadings", [op |-> "getReadings", from |-> from, to |-> to],
           getReadings(readings, from, to))
  /\ Holds("getReadings", getReadings(readings, from, to),
           from # Null \/ to # Null)

GetWindows(from, to) ==
  /\ Query("getWindows", [op |-> "getWindows", from |-> from, to |-> to],
           getWindows(windows, from, to))
  /\ Holds("getWindows", getWindows(windows, from, to),
           from # Null \/ to # Null)

GetAnomalies(type, phase, from, to) ==
  /\ Query("getAnomalies",
           [op |-> "getAnomalies", type |-> type, phase |-> phase,
            from |-> from, to |-> to],
           getAnomalies(anomalies, type, phase, from, to))
  /\ Holds("getAnomalies", getAnomalies(anomalies, type, phase, from, to),
           type # "" \/ phase # "" \/ from # Null \/ to # Null)

NextReaders ==
  \/ \E reading \in NextReadings(ReaderTimeSteps, ReaderTriples) : PushReading(reading)
  \/ StoreReset
  \/ Latest
  \/ \E from \in QueryFrom, to \in QueryTo : GetReadings(from, to)
  \/ \E from \in QueryFrom, to \in QueryTo : GetWindows(from, to)
  \/ \E type \in QueryTypes, phase \in QueryPhases :
       \E from \in QueryFrom, to \in QueryTo : GetAnomalies(type, phase, from, to)

SpecReaders == Init /\ [][NextReaders]_vars

\* A store whose windows and anomalies are filtered.
NextQueries ==
  \/ \E reading \in NextReadings(FilterTimeSteps, FilterTriples) : PushReading(reading)
  \/ \E from \in FilterFrom, to \in FilterTo : GetWindows(from, to)
  \/ \E type \in FilterTypes, phase \in FilterPhases :
       \E from \in FilterFrom, to \in FilterTo : GetAnomalies(type, phase, from, to)

SpecQueries == Init /\ [][NextQueries]_vars

\* ------------------------------------------------- calls of aggregateWindow
\* The lists of at most n readings, 10 s apart from start on, with voltages in
\* triples.
RECURSIVE ReadingLists(_, _, _)
ReadingLists(n, start, triples) ==
  IF n = 0 THEN {<<>>}
  ELSE LET shorter == ReadingLists(n - 1, start, triples)
       IN  shorter \cup
           {Append(rs, r) : rs \in {l \in shorter : Len(l) = n - 1},
                            r \in ReadingsAt(start + 10000 * n, triples)}

AggregateCalls ==
  {[op |-> "aggregateWindow", readings |-> rs, windowStart |-> 0,
    pollIntervalSeconds |-> pollIntervalSeconds] :
     rs \in ReadingLists(MaxSamples, 0, AggregateTriples)}

InitAggregate ==
  /\ InitProgram
  /\ call \in AggregateCalls
  /\ result = Null

\* aggregateWindow(readings, windowStart, pollIntervalSeconds)
AggregateWindow ==
  /\ call.op = "aggregateWindow"
  /\ lastOp = "init"
  /\ result' = aggregateWindow(call.readings, call.windowStart,
                                call.pollIntervalSeconds)
  /\ lastOp' = "aggregateWindow"
  /\ UNCHANGED <<state, wmVars, storeVars, lastReading, retAnomalies, retWindow,
                 nReadings, clock, hist, cleared, pairVars, call, readerVars>>

NextAggregate == AggregateWindow

SpecAggregate == InitAggregate /\ [][NextAggregate]_vars

\* -------------------------- calls of isVoltageInBounds and isVoltageZero
ClassifyCalls == {[op |-> "classify", voltage |-> v] : v \in ClassifiedVoltages}

InitClassify ==
  /\ InitProgram
  /\ call \in ClassifyCalls
  /\ result = Null

\* isVoltageInBounds(voltage) and isVoltageZero(voltage)
ClassifyVoltage ==
  /\ call.op = "classify"
  /\ lastOp = "init"
  /\ result' = [inBounds |-> isVoltageInBoundsFixed3(call.voltage),
                isZero |-> isVoltageZeroFixed3(call.voltage)]
  /\ lastOp' = "classify"
  /\ UNCHANGED <<state, wmVars, storeVars, lastReading, retAnomalies, retWindow,
                 nReadings, clock, hist, cleared, pairVars, call, readerVars>>

NextClassify == ClassifyVoltage

SpecClassify == InitClassify /\ [][NextClassify]_vars

\* --------------------------------------- calls of calculateWeeklyCompliance
\* Window i of a list of total windows of which the first f1, f2, f3 are not
\* compliant on L1, L2, L3.
WeeklyWindow(i, f1, f2, f3) ==
  [windowStart |-> (i - 1) * ESO_WINDOW_SECONDS * 1000,
   windowEnd |-> i * ESO_WINDOW_SECONDS * 1000,
   sampleCount |-> 60,
   rmsVoltageL1 |-> Fixed3(230),
   rmsVoltageL2 |-> Fixed3(230),
   rmsVoltageL3 |-> Fixed3(230),
   outOfBoundsSecondsL1 |-> IF i > f1 THEN 0 ELSE 40,
   outOfBoundsSecondsL2 |-> IF i > f2 THEN 0 ELSE 40,
   outOfBoundsSecondsL3 |-> IF i > f3 THEN 0 ELSE 40,
   compliantL1 |-> i > f1,
   compliantL2 |-> i > f2,
   compliantL3 |-> i > f3]

WeeklyCallsOf(total) ==
  LET failing == {f \in WeeklyFailing : f <= total}
  IN  {[op |-> "calculateWeeklyCompliance",
        windows |-> [i \in 1..total |-> WeeklyWindow(i, f1, f2, f3)],
        weekStart |-> 0] : f1 \in failing, f2 \in failing, f3 \in failing}

WeeklyCalls == UNION {WeeklyCallsOf(total) : total \in WeeklyTotals}

InitWeekly ==
  /\ InitProgram
  /\ call \in WeeklyCalls
  /\ result = Null

\* calculateWeeklyCompliance(windows, weekStart)
CalculateWeeklyCompliance ==
  /\ call.op = "calculateWeeklyCompliance"
  /\ lastOp = "init"
  /\ result' = calculateWeeklyCompliance(call.windows, call.weekStart)
  /\ lastOp' = "calculateWeeklyCompliance"
  /\ UNCHANGED <<state, wmVars, storeVars, lastReading, retAnomalies, retWindow,
                 nReadings, clock, hist, cleared, pairVars, call, readerVars>>

NextWeekly == CalculateWeeklyCompliance

SpecWeekly == InitWeekly /\ [][NextWeekly]_vars

\* -------------------------------------------------- a store with a history
\* The state of a store that was constructed and then given, by pushReading,
\* the readings 1..fill.n of a history, written out field by field: it is the
\* state that PushReading, applied fill.n times from Init, ends in.
FillReading(fill, i) ==
  [timestamp |-> fill.dt * i,
   voltage_l1 |-> IF fill.pattern = "high" \/ i % 2 = 1 THEN 250 ELSE 230,
   voltage_l2 |-> 230,
   voltage_l3 |-> 230]

\* The readings from..to of the history, in order.
FillReadings(fill, from, to) ==
  [x \in 1..(to - from + 1) |-> FillReading(fill, from + x - 1)]

\* Readings per 10-minute slot: slot j holds the readings j * k .. j * k + k - 1.
FillPerSlot(fill) == (ESO_WINDOW_SECONDS * 1000) \div fill.dt

\* The window of slot j, completed by the first reading of slot j + 1.
FillWindow(fill, j) ==
  LET k == FillPerSlot(fill)
  IN  aggregateWindow(FillReadings(fill, Max2(1, j * k), j * k + k - 1),
                      j * ESO_WINDOW_SECONDS * 1000, pollIntervalSeconds)

\* The anomaly pushReading returned for reading i: a "high" history opens one
\* deviation at reading 1; a "swing" history opens a deviation at every odd
\* reading and closes it at the next one.
FillAnomaly(fill, i) ==
  IF i % 2 = 1
    THEN createDeviationAnomaly("L1", fill.dt * i, 250)
    ELSE onInBounds([ongoing |-> TRUE, startedAt |-> fill.dt * (i - 1),
                     voltageMin |-> 250, voltageMax |-> 250],
                    "L1", fill.dt * i).out[1]

FillAnomalyCount(fill) == IF fill.pattern = "high" THEN Min2(fill.n, 1) ELSE fill.n

FillDeviationOngoing(fill) ==
  fill.n >= 1 /\ (fill.pattern = "high" \/ fill.n % 2 = 1)

FillDeviationStart(fill) ==
  IF fill.pattern = "high" THEN fill.dt ELSE fill.dt * fill.n

FillTrackerState(fill) ==
  [InitTrackerState EXCEPT
     !["L1"].deviation =
       IF FillDeviationOngoing(fill)
         THEN [ongoing |-> TRUE, startedAt |-> FillDeviationStart(fill),
               voltageMin |-> 250, voltageMax |-> 250]
         ELSE @]

FillHist(fill) ==
  [InitHist EXCEPT
     !["L1"] =
       [zeroRun |-> Null,
        oobRun |-> IF FillDeviationOngoing(fill)
                     THEN FillDeviationStart(fill) ELSE Null,
        episode |-> IF FillDeviationOngoing(fill) THEN {250} ELSE {},
        endedBy |-> IF fill.pattern = "swing" /\ fill.n >= 2 THEN "IB" ELSE "none",
        lastOpen |-> IF fill.n = 0 THEN Null
                     ELSE IF fill.pattern = "high" THEN fill.dt
                     ELSE fill.dt * (fill.n - (1 - (fill.n % 2))),
        paired |-> fill.pattern = "swing" /\ fill.n >= 2 /\ fill.n % 2 = 0,
        surplus |-> 0]]

InitHistory(fill) ==
    LET n == fill.n
        k == FillPerSlot(fill)
        nWindows == n \div k
        nAnomalies == FillAnomalyCount(fill)
    IN  /\ state = FillTrackerState(fill)
        /\ currentWindowStart = IF n = 0 THEN Null
                                ELSE getWindowStart(fill.dt * n)
        /\ buffer = FillReadings(fill, Max2(1, nWindows * k), n)
        /\ addCalls = n
        /\ emittedSamples = n - Len(FillReadings(fill, Max2(1, nWindows * k), n))
        /\ readings = FillReadings(fill, Max2(1, n - MAX_READINGS + 1), n)
        /\ windows = [x \in 1..Min2(nWindows, MAX_WINDOWS) |->
                        FillWindow(fill, Max2(0, nWindows - MAX_WINDOWS) + x - 1)]
        /\ anomalies = [x \in 1..Min2(nAnomalies, MAX_ANOMALIES) |->
                          FillAnomaly(fill, Max2(0, nAnomalies - MAX_ANOMALIES) + x)]
        /\ latest = IF n = 0 THEN NoReading ELSE FillReading(fill, n)
        /\ lastOp = "init"
        /\ lastReading = NoReading
        /\ retAnomalies = <<>>
        /\ retWindow = <<>>
        /\ nReadings = 0
        /\ clock = fill.dt * n
        /\ hist = FillHist(fill)
        /\ state2 = InitTrackerState
        /\ lastReading2 = NoReading
        /\ retAnomalies2 = <<>>
        /\ agree = Phase
        /\ cleared = Null
        /\ held = NothingHeld
        /\ lastPushed = IF n = 0 THEN NoReading ELSE FillReading(fill, n)
        /\ call = NoCall
        /\ result = Null

InitFill == \E fill \in Fills : InitHistory(fill)

NextFill ==
  \/ \E reading \in NextReadings(FillTimeSteps, FillTriples) : PushReading(reading)
  \/ StoreReset

SpecFill == InitFill /\ [][NextFill]_vars

\* ------------------------------------------------- routes/voltage.ts: texts
\* A query parameter is a sequence of characters.  NaN is the value parseInt
\* gives a text that does not start with a number.
NaN == -2000000000

Digits == <<"0", "1", "2", "3", "4", "5", "6", "7", "8", "9">>
IsDigit(c) == \E d \in 1..10 : Digits[d] = c
DigitValue(c) == (CHOOSE d \in 1..10 : Digits[d] = c) - 1

\* The value of the digits text starts with, after the digits read so far.
RECURSIVE LeadingDigits(_, _)
LeadingDigits(text, value) ==
  IF text = <<>> \/ ~IsDigit(Head(text)) THEN value
  ELSE LeadingDigits(Tail(text), 10 * value + DigitValue(Head(text)))

\* parseInt(text, 10): an optional sign, then the leading digits; NaN when
\* there is none.
parseInt(text) ==
  LET signed == text # <<>> /\ Head(text) \in {"-", "+"}
      rest == IF signed THEN Tail(text) ELSE text
  IN  IF rest = <<>> \/ ~IsDigit(Head(rest)) THEN NaN
      ELSE IF signed /\ Head(text) = "-" THEN -LeadingDigits(rest, 0)
      ELSE LeadingDigits(rest, 0)

\* Math.min(parseInt(text ?? fallback, 10) || fallback, cap): NaN and 0 are
\* falsy.
ParsedCount(text, fallback, cap) ==
  LET parsed == IF text = <<>> THEN fallback ELSE parseInt(text)
  IN  Min2(IF parsed = NaN \/ parsed = 0 THEN fallback ELSE parsed, cap)

\* maxPoints of GET /api/voltage/history
MaxPointsOf(text) == ParsedCount(text, 500, 5000)

\* parseDate(val, fallback): the fallback for a missing text and for a text
\* that is not a date.
parseDate(val, fallback) ==
  IF val.text = "" THEN fallback
  ELSE IF val.time = NaN THEN fallback
  ELSE val.time

\* array.slice(start)
Slice(seq, start) ==
  LET len == Len(seq)
      k == IF start < 0 THEN Max2(len + start, 0) ELSE Min2(start, len)
  IN  SubSeq(seq, k + 1, len)

\* array.reverse()
Reverse(seq) == [x \in 1..Len(seq) |-> seq[Len(seq) - x + 1]]

\* ---------------------------------------------- voltageState.ts: downsampling
\* Numbers are IEEE 754 doubles.  step = n / maxPoints is the quotient rounded
\* to 53 bits and i * step the product rounded to 53 bits, so Math.floor(i *
\* step) is floor(i * n / maxPoints) except when i * n / maxPoints is a whole
\* number K and the rounded product falls below K.  (When it is not whole it
\* is at least 1 / maxPoints >= 1 / 5000 away from a whole number, and the
\* two roundings move it by less than 1e-7.)
RECURSIVE Log2Floor(_)
Log2Floor(x) == IF x < 2 THEN 0 ELSE 1 + Log2Floor(x \div 2)

RECURSIVE Pow2(_)
Pow2(k) == IF k = 0 THEN 1 ELSE 2 * Pow2(k - 1)

\* 2^k modulo m
RECURSIVE Pow2Mod(_, _)
Pow2Mod(k, m) == IF k = 0 THEN 1 % m ELSE (2 * Pow2Mod(k - 1, m)) % m

\* n / maxPoints lies in [2^e, 2^(e+1)) and has the 53-bit significand
\* floor(n * 2^(52-e) / maxPoints), with remainder r: the quotient is rounded
\* down when 2r < maxPoints and up when 2r > maxPoints (2r = maxPoints would
\* need maxPoints to be a multiple of 2^(53-e)).
StepExponent(n, maxPoints) == Log2Floor(n \div maxPoints)

StepRemainder(n, maxPoints) ==
  ((n % maxPoints) * Pow2Mod(52 - StepExponent(n, maxPoints), maxPoints))
    % maxPoints

\* Math.floor(i * step) for 0 <= i < maxPoints < n.  A product below the whole
\* number K = i * n / maxPoints, by i * r / (maxPoints * 2^(52-e)), is rounded
\* to the double before K when that is more than half the distance between K
\* and that double, which is 2^(f-52) for K in (2^f, 2^(f+1)) and half as
\* much for K = 2^f; a product halfway is rounded to K, whose significand is
\* even.
FloorOfMultiple(i, n, maxPoints) ==
  LET K == (i * n) \div maxPoints
      r == StepRemainder(n, maxPoints)
      e == StepExponent(n, maxPoints)
      f == Log2Floor(K)
      halves == IF K = Pow2(f) THEN 4 ELSE 2
  IN  IF (i * n) % maxPoints # 0 \/ i = 0 THEN K
      ELSE IF 2 * r < maxPoints /\ halves * i * r > maxPoints * Pow2(f - e)
        THEN K - 1
      ELSE K

\* getReadingsDownsampled(from, to, maxPoints).  The readings of the store are
\* distinct objects, so result[result.length - 1] !== filtered[filtered.length
\* - 1] compares positions; result[-1] of an empty result is undefined.
getReadingsDownsampled(rs, from, to, maxPoints) ==
  LET filtered == getReadings(rs, from, to)
      n == Len(filtered)
      picked == [x \in 1..Max2(maxPoints, 0) |->
                   FloorOfMultiple(x - 1, n, maxPoints) + 1]
      lastPicked == IF Len(picked) = 0 THEN 0 ELSE picked[Len(picked)]
      sampled == [x \in 1..Len(picked) |-> filtered[picked[x]]]
  IN  IF n <= maxPoints THEN filtered
      ELSE IF lastPicked # n THEN Append(sampled, filtered[n])
      ELSE sampled

GetReadingsDownsampled(from, to, maxPoints) ==
  /\ Query("getReadingsDownsampled",
           [op |-> "getReadingsDownsampled", from |-> from, to |-> to,
            maxPoints |-> maxPoints],
           getReadingsDownsampled(readings, from, to, maxPoints))
  /\ UNCHANGED held

InitDownsample == \E fill \in DownsampleFills : InitHistory(fill)

NextDownsample ==
  \/ \E reading \in NextReadings(DownsampleTimeSteps, FillTriples) :
       PushReading(reading)
  \/ \E from \in DownsampleFrom, to \in DownsampleTo, text \in PointsTexts :
       GetReadingsDownsampled(from, to, MaxPointsOf(text))

SpecDownsample == InitDownsample /\ [][NextDownsample]_vars

\* ------------------------------------- routes/voltage.ts: GET .../anomalies
\* The arguments the handler gives getAnomalies, and its limit.
AnomaliesFrom(query) ==
  IF query.from.text # "" THEN parseDate(query.from, 0) ELSE Null

AnomaliesTo(query, now) ==
  IF query.to.text # "" THEN parseDate(query.to, now) ELSE Null

LimitOf(text) == ParsedCount(text, 100, 1000)

\* The response: no parameter is checked, every request is answered 200.
AnomaliesResponse(as, query, now) ==
  LET found == getAnomalies(as, query.type, query.phase,
                            AnomaliesFrom(query), AnomaliesTo(query, now))
  IN  [status |-> 200,
       count |-> Len(found),
       data |-> Reverse(Slice(found, -LimitOf(query.limit)))]

\* GET /api/voltage/anomalies?type=&phase=&from=&to=&limit= at time now
HandleAnomalies(query, now) ==
  /\ Query("GET /api/voltage/anomalies",
           [op |-> "GET /api/voltage/anomalies", query |-> query, now |-> now],
           AnomaliesResponse(anomalies, query, now))
  /\ UNCHANGED held

AnomalyQueries ==
  [type : RouteTypes, phase : RoutePhases, from : AnomalyRouteFrom,
   to : AnomalyRouteTo, limit : LimitTexts]

InitAnomaliesRoute == \E fill \in AnomalyRouteFills : InitHistory(fill)

NextAnomaliesRoute ==
  \/ \E reading \in NextReadings(AnomalyRouteTimeSteps, AnomalyRouteTriples) :
       PushReading(reading)
  \/ \E query \in AnomalyQueries : HandleAnomalies(query, clock)

SpecAnomaliesRoute == InitAnomaliesRoute /\ [][NextAnomaliesRoute]_vars

\* ---------------------------------------- routes/voltage.ts: GET .../latest
analyseVoltage(voltage, phase) ==
  [phase |-> phase,
   voltage |-> voltage,
   nominal |-> ESO_NOMINAL_VOLTAGE_1PH,
   min |-> ESO_VOLTAGE_MIN_1PH,
   max |-> ESO_VOLTAGE_MAX_1PH,
   deviation |-> voltage - ESO_NOMINAL_VOLTAGE_1PH,
   inBounds |-> isVoltageInBounds(voltage),
   isZero |-> isVoltageZero(voltage)]

\* Mutant: the phases are analysed from L3 to L1.
analyseReading_Reversed(reading) ==
  [x \in 1..3 |->
     analyseVoltage(getVoltageForPhase(reading, PHASES[4 - x]), PHASES[4 - x])]

\* PHASES.map((phase) => analyseVoltage(getVoltageForPhase(reading, phase), phase))
analyseReading(reading) ==
  [x \in 1..3 |->
     analyseVoltage(getVoltageForPhase(reading, PHASES[x]), PHASES[x])]

LatestResponse(reading) ==
  IF reading = NoReading
    THEN [status |-> 503, error |-> "NO_DATA"]
    ELSE [status |-> 200,
          timestamp |-> reading.timestamp,
          phases |-> analyseReading(reading),
          bounds |-> [nominal |-> ESO_NOMINAL_VOLTAGE_1PH,
                      tolerance |-> ESO_VOLTAGE_TOLERANCE,
                      min |-> ESO_VOLTAGE_MIN_1PH,
                      max |-> ESO_VOLTAGE_MAX_1PH]]

\* GET /api/voltage/latest
HandleLatest ==
  /\ Query("GET /api/voltage/latest", [op |-> "GET /api/voltage/latest"],
           LatestResponse(latest))
  /\ UNCHANGED held

NextLatestRoute ==
  \/ \E reading \in NextReadings(LatestRouteTimeSteps, LatestRouteTriples) :
       PushReading(reading)
  \/ StoreReset
  \/ HandleLatest

SpecLatestRoute == Init /\ [][NextLatestRoute]_vars

\* --------------------------------------- routes/voltage.ts: GET .../history
\* Mutant: a range of no length is accepted.
InvalidRange_Empty(from, to) == from > to

\* from >= to
InvalidRange(from, to) == from >= to

HistoryFrom(query, now) == parseDate(query.from, now - 3600000)
HistoryTo(query, now) == parseDate(query.to, now)

\* interval ?? 'raw'
HistoryInterval(query) == IF query.interval = "" THEN "raw" ELSE query.interval

HistoryBounds ==
  [nominal |-> ESO_NOMINAL_VOLTAGE_1PH, min |-> ESO_VOLTAGE_MIN_1PH,
   max |-> ESO_VOLTAGE_MAX_1PH]

WindowPoint(w) ==
  [timestamp |-> w.windowStart,
   windowEnd |-> w.windowEnd,
   sampleCount |-> w.sampleCount,
   voltage_l1 |-> w.rmsVoltageL1,
   voltage_l2 |-> w.rmsVoltageL2,
   voltage_l3 |-> w.rmsVoltageL3,
   compliant_l1 |-> w.compliantL1,
   compliant_l2 |-> w.compliantL2,
   compliant_l3 |-> w.compliantL3,
   oob_seconds_l1 |-> w.outOfBoundsSecondsL1,
   oob_seconds_l2 |-> w.outOfBoundsSecondsL2,
   oob_seconds_l3 |-> w.outOfBoundsSecondsL3]

ReadingPoint(r) ==
  [timestamp |-> r.timestamp, voltage_l1 |-> r.voltage_l1,
   voltage_l2 |-> r.voltage_l2, voltage_l3 |-> r.voltage_l3]

\* The array the handler asks the store for, once the range is accepted.
HistoryQueried(rs, ws, query, now) ==
  IF HistoryInterval(query) = "10min"
    THEN getWindows(ws, HistoryFrom(query, now), HistoryTo(query, now))
    ELSE getReadingsDownsampled(rs, HistoryFrom(query, now),
                                HistoryTo(query, now), MaxPointsOf(query.points))

HistoryResponse(rs, ws, query, now) ==
  LET from == HistoryFrom(query, now)
      to == HistoryTo(query, now)
      queried == HistoryQueried(rs, ws, query, now)
  IN  IF InvalidRange(from, to)
        THEN [status |-> 400, error |-> "INVALID_RANGE"]
      ELSE IF HistoryInterval(query) = "10min"
        THEN [status |-> 200, interval |-> "10min", from |-> from, to |-> to,
              count |-> Len(queried),
              data |-> [x \in 1..Len(queried) |-> WindowPoint(queried[x])],
              bounds |-> HistoryBounds]
      ELSE [status |-> 200, interval |-> "raw", from |-> from, to |-> to,
            count |-> Len(queried),
            data |-> [x \in 1..Len(queried) |-> ReadingPoint(queried[x])],
            bounds |-> HistoryBounds]

\* GET /api/voltage/history?from=&to=&points=&interval= at time now.  The
\* store is asked only when the range is accepted; both bounds are given to
\* it, so the array it returns is a copy.
HandleHistory(query, now) ==
  /\ Query("GET /api/voltage/history",
           [op |-> "GET /api/voltage/history", query |-> query, now |-> now],
           HistoryResponse(readings, windows, query, now))
  /\ IF InvalidRange(HistoryFrom(query, now), HistoryTo(query, now))
       THEN UNCHANGED held
       ELSE Holds(IF HistoryInterval(query) = "10min"
                    THEN "getWindows" ELSE "getReadingsDownsampled",
                  HistoryQueried(readings, windows, query, now), TRUE)

HistoryQueries ==
  [from : HistoryRouteFrom, to : HistoryRouteTo, points : HistoryRoutePoints,
   interval : HistoryRouteIntervals]

NextHistoryRoute ==
  \/ \E reading \in NextReadings(HistoryRouteTimeSteps, HistoryRouteTriples) :
       PushReading(reading)
  \/ \E query \in HistoryQueries : HandleHistory(query, clock)

SpecHistoryRoute == Init /\ [][NextHistoryRoute]_vars

\* ---------------------------------------- voltageState.ts: weekly compliance
\* Local time: the instant t reads t + offset on the clocks of the zone.
MsPerDay == 24 * 3600 * 1000

OffsetAt(t, tz) ==
  IF tz.change = Null \/ t < tz.change THEN tz.before ELSE tz.after

LocalTime(t, tz) == t + OffsetAt(t, tz)

\* The instant at which the clocks of the zone read local; a reading that
\* occurs twice is the earlier instant, one that is skipped is read with the
\* offset before the change.
UTCOfLocal(local, tz) ==
  IF OffsetAt(local - tz.before, tz) = tz.before THEN local - tz.before
  ELSE IF OffsetAt(local - tz.after, tz) = tz.after THEN local - tz.after
  ELSE local - tz.before

\* d.getDay(): 0 is Sunday; 1970-01-01 was a Thursday.
getDay(d, tz) == ((LocalTime(d, tz) \div MsPerDay) + 4) % 7

\* diff = d.getDate() - day + (day === 0 ? -6 : 1); weekStart.setDate(diff);
\* weekStart.setHours(0, 0, 0, 0).  The day of the month is counted in days
\* since 1970-01-01 (setDate carries into the months); no clock changes on a
\* Monday, so the local date after setDate is that Monday.
WeekStartOf(d, tz) ==
  LET day == getDay(d, tz)
      date == LocalTime(d, tz) \div MsPerDay
      diff == date - day + (IF day = 0 THEN -6 ELSE 1)
  IN  UTCOfLocal(diff * MsPerDay, tz)

\* getWeeklyCompliance(date) in a process of time zone tz
getWeeklyCompliance(ws, d, tz) ==
  LET weekStart == WeekStartOf(d, tz)
      weekEnd == weekStart + 7 * 24 * 3600000
      weekWindows == SelectSeq(ws, LAMBDA w : w.windowStart >= weekStart
                                              /\ w.windowStart < weekEnd)
  IN  calculateWeeklyCompliance(weekWindows, weekStart)

GetWeeklyCompliance(date, tz) ==
  /\ Query("getWeeklyCompliance",
           [op |-> "getWeeklyCompliance", date |-> date, timeZone |-> tz],
           getWeeklyCompliance(windows, date, tz))
  /\ UNCHANGED held

InitWeek == \E fill \in WeekFills : InitHistory(fill)

NextWeek ==
  \/ \E reading \in NextReadings(WeekTimeSteps, FillTriples) : PushReading(reading)
  \/ \E date \in WeekDates, tz \in TimeZones : GetWeeklyCompliance(date, tz)

SpecWeek == InitWeek /\ [][NextWeek]_vars

\* ------------------------------- voltageAnalysis.ts: windows in local time
\* getWindowStart(date) in a process of time zone tz.  setSeconds and
\* setMinutes each read the local time of the date, replace fields of it and
\* store the instant of the local time so obtained.
getWindowStartIn(date, tz) ==
  LET local == LocalTime(date, tz)
      d == UTCOfLocal(local - (local % 60000), tz)
      local2 == LocalTime(d, tz)
      minutes == (local2 \div 60000) % 60
      floored == (minutes \div ESO_WINDOW_MINUTES) * ESO_WINDOW_MINUTES
  IN  UTCOfLocal(local2 - (minutes - floored) * 60000, tz)

InitSlot ==
  /\ InitProgram
  /\ call \in {[op |-> "getWindowStart", date |-> d, timeZone |-> tz] :
                 d \in SlotDates, tz \in TimeZones}
  /\ result = Null

\* windowStart = getWindowStart(date); windowEnd = getWindowEnd(windowStart)
GetWindowStart ==
  /\ call.op = "getWindowStart"
  /\ lastOp = "init"
  /\ LET windowStart == getWindowStartIn(call.date, call.timeZone)
     IN  result' = [windowStart |-> windowStart,
                    windowEnd |-> getWindowEnd(windowStart)]
  /\ lastOp' = "getWindowStart"
  /\ UNCHANGED <<state, wmVars, storeVars, lastReading, retAnomalies, retWindow,
                 nReadings, clock, hist, cleared, pairVars, call, readerVars>>

NextSlot == GetWindowStart

SpecSlot == InitSlot /\ [][NextSlot]_vars

\* ------------------------------------- the pipeline in a local time zone
\* The time zone of a process on the day the clocks go back.
ClocksBack == CHOOSE tz \in TimeZones : tz.name = "Europe/Vilnius, clocks back"

\* addReading in a process of time zone tz
addReadingIn(cws, buf, reading, tz) ==
  LET windowStart == getWindowStartIn(reading.timestamp, tz)
  IN  IF cws = Null
        THEN [currentWindowStart |-> windowStart, buffer |-> <<reading>>,
              ret |-> <<>>]
        ELSE IF windowStart # cws
          THEN [currentWindowStart |-> windowStart, buffer |-> <<reading>>,
                ret |-> <<aggregateWindow(buf, cws, pollIntervalSeconds)>>]
          ELSE [currentWindowStart |-> cws, buffer |-> Append(buf, reading),
                ret |-> <<>>]

\* voltageState.pushReading(reading) in a process of time zone tz
PushReadingIn(reading, tz) ==
  /\ nReadings < MaxReadings
  /\ latest' = reading
  /\ readings' = SliceLast(Append(readings, reading), MAX_READINGS)
  /\ TrackerStep(reading)
  /\ anomalies' = SliceLast(anomalies \o retAnomalies', MAX_ANOMALIES)
  /\ LET r == addReadingIn(currentWindowStart, buffer, reading, tz)
     IN  /\ currentWindowStart' = r.currentWindowStart
         /\ buffer' = r.buffer
         /\ retWindow' = r.ret
         /\ addCalls' = addCalls + 1
         /\ emittedSamples' = emittedSamples + SampleCountOf(r.ret)
  /\ windows' = IF retWindow' # <<>>
                  THEN SliceLast(windows \o retWindow', MAX_WINDOWS)
                  ELSE windows
  /\ lastOp' = "pushReading"
  /\ lastReading' = reading
  /\ nReadings' = nReadings + 1
  /\ clock' = reading.timestamp
  /\ held' = heldAfterPush(held, reading, retAnomalies', retWindow')
  /\ lastPushed' = reading
  /\ UNCHANGED <<pairVars, callVars>>

\* Readings with timestamps that do not decrease.
NextClocksBack ==
  \E ts \in ZoneTimes : \E reading \in ReadingsAt(ts, ZoneTriples) :
    /\ ts >= clock
    /\ PushReadingIn(reading, ClocksBack)

SpecClocksBack == Init /\ [][NextClocksBack]_vars

\* =================================================================== claims
InterruptionTypes == {"LONG_INTERRUPTION", "SHORT_INTERRUPTION"}

\* The anomalies of a list that are about a phase, in order.
OfPhase(out, p) == SelectSeq(out, LAMBDA a : a.phase = p)
Interruptions(out) == SelectSeq(out, LAMBDA a : a.type \in InterruptionTypes)
Deviations(out) == SelectSeq(out, LAMBDA a : a.type = "VOLTAGE_DEVIATION")

SetMin(S) == CHOOSE x \in S : \A y \in S : x <= y
SetMax(S) == CHOOSE x \in S : \A y \in S : x >= y

\* ----------------------------------------------------------------------- C1
C1_Step(p) ==
  LET v == VoltageOf(lastReading', p)
      ts == lastReading'.timestamp
      ints == Interruptions(OfPhase(retAnomalies', p))
      duration == ts - hist[p].zeroRun
  IN  (state[p].interruption.ongoing /\ ~IsZERO(v)) =>
        /\ Len(ints) = 1
        /\ ~state'[p].interruption.ongoing
        /\ ints[1].startedAt = hist[p].zeroRun
        /\ ints[1].durationSeconds = duration
        /\ IF duration > 180 * 1000
             THEN ints[1].type = "LONG_INTERRUPTION" /\ ints[1].severity = "CRITICAL"
             ELSE ints[1].type = "SHORT_INTERRUPTION" /\ ints[1].severity = "WARNING"

\* C1: when a phase has an ongoing interruption and processReading gets a
\* non-zero voltage for it, exactly one interruption anomaly is emitted for the
\* phase and the interruption sub-machine is idle afterwards; started_at is the
\* timestamp of the first zero reading of the run, the duration is
\* reading.ts - started_at, and the anomaly is LONG/CRITICAL when the duration
\* exceeds 180 s and SHORT/WARNING otherwise (exactly 180 s is SHORT).
C1_InterruptionRecovery ==
  [][lastOp' = "processReading" => \A p \in Phase : C1_Step(p)]_vars

\* A recovery after exactly 180 s, reported SHORT.
C1_Witness ==
  /\ lastOp = "processReading"
  /\ \E i \in 1..Len(retAnomalies) :
       /\ retAnomalies[i].type = "SHORT_INTERRUPTION"
       /\ retAnomalies[i].durationSeconds = 180 * 1000
       /\ ~IsZERO(VoltageOf(lastReading, retAnomalies[i].phase))

\* ----------------------------------------------------------------------- C3
C3_Step(p) ==
  LET v == VoltageOf(lastReading', p)
      ts == lastReading'.timestamp
      mine == OfPhase(retAnomalies', p)
      devs == Deviations(mine)
  IN  /\ (~state[p].deviation.ongoing /\ IsOOB(v)) =>
           /\ Len(devs) = 1
           /\ devs[1] = [startedAt |-> ts, endedAt |-> Null, phase |-> p,
                         type |-> "VOLTAGE_DEVIATION", severity |-> "WARNING",
                         voltageMin |-> v, voltageMax |-> v,
                         durationSeconds |-> Null]
      /\ (state[p].deviation.ongoing /\ IsOOB(v)) => mine = <<>>

\* C3: when the deviation sub-machine of a phase is idle and the voltage is
\* out of [220, 240] but not zero, exactly one opening VOLTAGE_DEVIATION /
\* WARNING anomaly is emitted with started_at = reading.ts, ended_at = null,
\* duration_s = null and v_min = v_max = the voltage, whatever an earlier
\* episode left behind; while the deviation is ongoing, further out-of-bounds
\* non-zero readings emit nothing for the phase.
C3_DeviationOpening ==
  [][lastOp' = "processReading" => \A p \in Phase : C3_Step(p)]_vars

\* A deviation opened after an earlier episode was ended by a zero reading,
\* which leaves that episode's extremes in the phase state.
C3_Witness ==
  /\ lastOp = "processReading"
  /\ \E p \in Phase :
       /\ hist[p].endedBy = "ZERO"
       /\ Len(Deviations(OfPhase(retAnomalies, p))) = 1
       /\ Deviations(OfPhase(retAnomalies, p))[1].endedAt = Null
       /\ hist[p].episode = {VoltageOf(lastReading, p)}

\* ----------------------------------------------------------------------- C4
C4_Step(p) ==
  LET v == VoltageOf(lastReading', p)
      ts == lastReading'.timestamp
      devs == Deviations(OfPhase(retAnomalies', p))
  IN  (state[p].deviation.ongoing /\ IsIB(v)) =>
        /\ Len(devs) = 1
        /\ devs[1].startedAt = hist[p].lastOpen
        /\ devs[1].startedAt = hist[p].oobRun
        /\ devs[1].endedAt = ts
        /\ devs[1].endedAt >= devs[1].startedAt
        /\ devs[1].durationSeconds = devs[1].endedAt - devs[1].startedAt
        /\ devs[1].voltageMin = SetMin(hist[p].episode)
        /\ devs[1].voltageMax = SetMax(hist[p].episode)
        /\ \A w \in hist[p].episode :
             devs[1].voltageMin <= w /\ w <= devs[1].voltageMax
        /\ ~state'[p].deviation.ongoing

\* C4: when a phase with an ongoing deviation gets an in-bounds reading,
\* exactly one closing VOLTAGE_DEVIATION anomaly is emitted; its started_at is
\* that of the episode's opening anomaly, ended_at = reading.ts >= started_at,
\* duration_s = ended_at - started_at, v_min and v_max are the minimum and the
\* maximum of the voltages observed on the phase during the episode, and the
\* deviation sub-machine is idle afterwards.
C4_DeviationClosing ==
  [][lastOp' = "processReading" => \A p \in Phase : C4_Step(p)]_vars

\* A closing anomaly of an episode in which two different voltages were seen.
C4_Witness ==
  /\ lastOp = "processReading"
  /\ \E i \in 1..Len(retAnomalies) :
       /\ retAnomalies[i].type = "VOLTAGE_DEVIATION"
       /\ retAnomalies[i].endedAt # Null
       /\ retAnomalies[i].voltageMin < retAnomalies[i].voltageMax
       /\ IsIB(VoltageOf(lastReading, retAnomalies[i].phase))

\* ----------------------------------------------------------------------- C5
\* C5 as stated: once the deviation sub-machine of a phase is idle again, the
\* last opening anomaly emitted on the phase has been followed by a closing
\* anomaly with the same started_at.
C5_EveryOpeningIsClosed ==
  \A p \in Phase :
    (~state[p].deviation.ongoing /\ hist[p].lastOpen # Null) => hist[p].paired

\* C5, amended: once the deviation sub-machine of a phase is idle again, the
\* last opening anomaly emitted on the phase has been followed by a closing
\* anomaly with the same phase and started_at exactly when the episode was
\* ended by an in-bounds reading; an episode ended by a zero reading gets none.
C5_OpeningClosedByInBounds ==
  \A p \in Phase :
    (~state[p].deviation.ongoing /\ hist[p].lastOpen # Null) =>
      /\ hist[p].endedBy \in {"IB", "ZERO"}
      /\ hist[p].paired <=> hist[p].endedBy = "IB"

\* An episode opened and then closed by an in-bounds reading.
C5_Witness ==
  \E p \in Phase :
    /\ ~state[p].deviation.ongoing
    /\ hist[p].lastOpen # Null
    /\ hist[p].endedBy = "IB"
    /\ hist[p].paired
    /\ \E i \in 1..Len(retAnomalies) :
         /\ retAnomalies[i].phase = p
         /\ retAnomalies[i].startedAt = hist[p].lastOpen
         /\ retAnomalies[i].endedAt # Null

\* ----------------------------------------------------------------------- C2
\* The readings of the reading buffer that ended an interruption anomaly: at
\* its ended_at, with its v_max on its phase.
RecoveryReadings(a) ==
  {i \in 1..Len(readings) :
     /\ readings[i].timestamp = a.endedAt
     /\ VoltageOf(readings[i], a.phase) = a.voltageMax}

\* C2: every interruption anomaly in the store's anomaly buffer or returned by
\* push has ended_at set, duration_s = (ended_at - started_at) / 1000,
\* v_min = 0 and v_max = the recovery voltage, which is >= 10; an interruption
\* that has not recovered yet is not in the anomaly buffer.
C2_InterruptionAnomalies ==
  /\ \A a \in Range(anomalies) \cup Range(retAnomalies) :
       a.type \in InterruptionTypes =>
         /\ a.endedAt # Null
         /\ a.durationSeconds = a.endedAt - a.startedAt
         /\ a.voltageMin = 0
         /\ a.voltageMax >= 10
         /\ RecoveryReadings(a) # {}
  /\ \A p \in Phase :
       hist[p].zeroRun # Null =>
         \A a \in Range(anomalies) :
           (a.phase = p /\ a.type \in InterruptionTypes) =>
             a.endedAt <= hist[p].zeroRun

\* The buffer holds an interruption that recovered at the smallest non-zero
\* voltage while another phase is still interrupted.
C2_Witness ==
  /\ \E i \in 1..Len(anomalies) :
       anomalies[i].type \in InterruptionTypes /\ anomalies[i].voltageMax = 10
  /\ \E p \in Phase : state[p].interruption.ongoing

\* ----------------------------------------------------------------------- C6
\* C6: two trackers fed readings with the same timestamps that agree on the
\* voltages of a phase emit the same anomalies for that phase and are in the
\* same state for that phase, whatever the voltages of the other phases.
C6_PhasesIndependent ==
  \A p \in agree :
    /\ state[p] = state2[p]
    /\ OfPhase(retAnomalies, p) = OfPhase(retAnomalies2, p)

\* The two trackers agree on a phase that has just emitted an anomaly, and
\* differ on another phase, in state and in what they emitted.
C6_Witness ==
  \E p \in agree : \E q \in Phase \ agree :
    /\ OfPhase(retAnomalies, p) # <<>>
    /\ state[q] # state2[q]
    /\ OfPhase(retAnomalies, q) # OfPhase(retAnomalies2, q)

\* ----------------------------------------------------------------------- C7
\* The entries that the history of the reading stream calls for.
RECURSIVE ExpectedActiveFrom(_)
ExpectedActiveFrom(i) ==
  IF i > 3 THEN <<>>
  ELSE LET p == <<"L1", "L2", "L3">>[i]
       IN  (IF hist[p].zeroRun # Null
              THEN <<[phase |-> p, type |-> "interruption",
                      startedAt |-> hist[p].zeroRun]>>
              ELSE <<>>)
           \o (IF hist[p].oobRun # Null
                 THEN <<[phase |-> p, type |-> "deviation",
                         startedAt |-> hist[p].oobRun]>>
                 ELSE <<>>)
           \o ExpectedActiveFrom(i + 1)

EntriesOf(active, p, type) ==
  Len(SelectSeq(active, LAMBDA e : e.phase = p /\ e.type = type))

\* C7: getActiveAnomalies returns exactly one entry for each (phase,
\* sub-machine) that is not idle and none for the idle ones; an entry carries
\* the phase, the type and the timestamp of the reading that entered the state.
C7_ActiveAnomalies ==
  LET active == getActiveAnomalies(state)
  IN  /\ active = ExpectedActiveFrom(1)
      /\ \A p \in Phase :
           /\ EntriesOf(active, p, "interruption")
                = (IF state[p].interruption.ongoing THEN 1 ELSE 0)
           /\ EntriesOf(active, p, "deviation")
                = (IF state[p].deviation.ongoing THEN 1 ELSE 0)
           /\ EntriesOf(active, p, "interruption") + EntriesOf(active, p, "deviation")
                = Len(OfPhase(active, p))

\* An interruption and a deviation are active, each entered by an earlier
\* reading than the last one.
C7_Witness ==
  LET active == getActiveAnomalies(state)
  IN  /\ lastOp = "processReading"
      /\ \E i, j \in 1..Len(active) :
           /\ active[i].type = "interruption"
           /\ active[j].type = "deviation"
           /\ active[i].startedAt < lastReading.timestamp
           /\ active[j].startedAt < lastReading.timestamp

\* ----------------------------------------------------------------------- C8
\* C8: reset returns every sub-machine of every phase to idle: right after it
\* getActiveAnomalies is empty, and the next reading is processed as by a
\* fresh tracker (a non-zero voltage emits no interruption anomaly, an
\* in-bounds voltage no closing deviation).
C8_Reset ==
  [][/\ lastOp' = "reset" =>
          /\ getActiveAnomalies(state') = <<>>
          /\ \A p \in Phase : /\ ~state'[p].interruption.ongoing
                              /\ ~state'[p].deviation.ongoing
     /\ (lastOp = "reset" /\ lastOp' = "processReading") =>
          /\ Interruptions(retAnomalies') = <<>>
          /\ \A i \in 1..Len(retAnomalies') : retAnomalies'[i].endedAt = Null
          /\ \A p \in Phase :
               /\ state'[p].interruption.ongoing
                    <=> IsZERO(VoltageOf(lastReading', p))
               /\ state'[p].deviation.ongoing
                    <=> IsOOB(VoltageOf(lastReading', p))
               /\ Len(OfPhase(retAnomalies', p))
                    = (IF IsOOB(VoltageOf(lastReading', p)) THEN 1 ELSE 0)
    ]_vars

\* A reset that cleared an interruption and a deviation, followed by a nominal
\* reading that emitted nothing.
C8_Witness ==
  /\ lastOp = "processReading"
  /\ cleared # Null
  /\ cleared >= 2
  /\ \A p \in Phase : IsIB(VoltageOf(lastReading, p))
  /\ retAnomalies = <<>>

\* ----------------------------------------------------------------------- C9
\* The 10-minute slot of a timestamp.
SlotOf(ts) == ts - (ts % 600000)

\* Readings of a buffer whose voltage on a phase is out of [220, 240].
OutOfBoundsCount(buf, p) ==
  Cardinality({i \in 1..Len(buf) : ~IsIB(VoltageOf(buf[i], p))})

\* w is the aggregate of the readings buf of the window opened at start.
IsAggregateOf(w, buf, start) ==
  /\ w.windowStart = start
  /\ w.windowEnd = start + 600000
  /\ w.sampleCount = Len(buf)
  /\ w.outOfBoundsSecondsL1 = 10 * OutOfBoundsCount(buf, "L1")
  /\ w.outOfBoundsSecondsL2 = 10 * OutOfBoundsCount(buf, "L2")
  /\ w.outOfBoundsSecondsL3 = 10 * OutOfBoundsCount(buf, "L3")
  /\ w = aggregateWindow(buf, start, 10)

\* C9: addReading returns nothing when no window is open (it opens one holding
\* the reading) or when the reading's slot is the open slot (it appends); when
\* the slot differs it returns the aggregate of exactly the readings buffered
\* so far, with window_start = the slot that was open and sample_count = their
\* number, and then the open slot is the reading's and the buffer holds the
\* reading alone.
C9_AddReading ==
  [][lastOp' = "addReading" =>
       LET slot == SlotOf(lastReading'.timestamp)
       IN  /\ currentWindowStart = Null =>
                /\ retWindow' = <<>>
                /\ currentWindowStart' = slot
                /\ buffer' = <<lastReading'>>
           /\ (currentWindowStart # Null /\ slot = currentWindowStart) =>
                /\ retWindow' = <<>>
                /\ currentWindowStart' = currentWindowStart
                /\ buffer' = Append(buffer, lastReading')
           /\ (currentWindowStart # Null /\ slot # currentWindowStart) =>
                /\ Len(retWindow') = 1
                /\ IsAggregateOf(retWindow'[1], buffer, currentWindowStart)
                /\ currentWindowStart' = slot
                /\ buffer' = <<lastReading'>>
    ]_vars

\* A reading of a later slot closed a window of two readings.
C9_Witness ==
  /\ lastOp = "addReading"
  /\ Len(retWindow) = 1
  /\ retWindow[1].sampleCount = 2
  /\ retWindow[1].windowStart < currentWindowStart
  /\ buffer = <<lastReading>>

\* ---------------------------------------------------------------------- C10
\* C10: flush returns the aggregate of the buffered readings and clears the
\* open window when a window is open and non-empty, and nothing otherwise;
\* after a flush the buffer is empty, a flush repeated at once returns nothing,
\* and the next addReading is treated as the first one (returns nothing).
C10_Flush ==
  [][/\ lastOp' = "flush" =>
          /\ IF currentWindowStart # Null /\ Len(buffer) > 0
               THEN /\ Len(retWindow') = 1
                    /\ IsAggregateOf(retWindow'[1], buffer, currentWindowStart)
               ELSE retWindow' = <<>>
          /\ currentWindowStart' = Null
          /\ Len(buffer') = 0
     /\ (lastOp = "flush" /\ lastOp' = "flush") => retWindow' = <<>>
     /\ (lastOp = "flush" /\ lastOp' = "addReading") =>
          /\ retWindow' = <<>>
          /\ currentWindowStart' = SlotOf(lastReading'.timestamp)
          /\ buffer' = <<lastReading'>>
    ]_vars

\* A flush returned a window of two readings and left the manager empty.
C10_Witness ==
  /\ lastOp = "flush"
  /\ Len(retWindow) = 1
  /\ retWindow[1].sampleCount = 2
  /\ currentWindowStart = Null
  /\ buffer = <<>>

\* ---------------------------------------------------------------------- C11
\* The out-of-bounds seconds and the compliance flag of a window, by phase.
OobOf(w, p) ==
  CASE p = "L1" -> w.outOfBoundsSecondsL1
    [] p = "L2" -> w.outOfBoundsSecondsL2
    [] p = "L3" -> w.outOfBoundsSecondsL3

CompliantOf(w, p) ==
  CASE p = "L1" -> w.compliantL1
    [] p = "L2" -> w.compliantL2
    [] p = "L3" -> w.compliantL3

\* C11 as stated: in every window aggregateWindow produces, oob_seconds of a
\* phase is the number of aggregated readings out of [220, 240] on the phase
\* times the poll interval, and compliant is oob_seconds <= 30.
C11_OobIsCountTimesInterval ==
  lastOp = "aggregateWindow" =>
    \A p \in Phase :
      /\ OobOf(result, p)
           = OutOfBoundsCount(call.readings, p) * call.pollIntervalSeconds
      /\ CompliantOf(result, p) <=> OobOf(result, p) <= 30

\* C11, amended: the same for every window aggregateWindow produces from at
\* least one reading (zero-voltage readings count as out of bounds; 3 such
\* readings give 30 s and compliant, 4 give 40 s and not compliant); the
\* window of an empty list of readings reports 600 s and not compliant on
\* every phase.
C11_OobSeconds ==
  lastOp = "aggregateWindow" =>
    \A p \in Phase :
      LET n == OutOfBoundsCount(call.readings, p)
      IN  /\ Len(call.readings) > 0 =>
                /\ OobOf(result, p) = n * call.pollIntervalSeconds
                /\ n <= 3 => CompliantOf(result, p)
                /\ n >= 4 => ~CompliantOf(result, p)
          /\ Len(call.readings) = 0 =>
                OobOf(result, p) = 600 /\ ~CompliantOf(result, p)
          /\ CompliantOf(result, p) <=> OobOf(result, p) <= 30

\* A window with 3 out-of-bounds readings on one phase (30 s, compliant) and
\* 4 on another (40 s, not compliant), one of them a zero-voltage reading.
C11_Witness ==
  /\ lastOp = "aggregateWindow"
  /\ \E p, q \in Phase :
       /\ OutOfBoundsCount(call.readings, p) = 3
       /\ OobOf(result, p) = 30 /\ CompliantOf(result, p)
       /\ OutOfBoundsCount(call.readings, q) = 4
       /\ OobOf(result, q) = 40 /\ ~CompliantOf(result, q)
       /\ \E i \in 1..Len(call.readings) : VoltageOf(call.readings[i], q) = 0

\* ---------------------------------------------------------------------- C12
\* C12: in every window the store has recorded or pushReading has returned,
\* whatever the number of readings of its 10-minute slot, oob_seconds of every
\* phase is at least 0 and at most 600.
C12_OobWithinWindow ==
  \A w \in Range(windows) \cup Range(retWindow) :
    \A p \in Phase : 0 <= OobOf(w, p) /\ OobOf(w, p) <= 600

\* ---------------------------------------------------------------------- C13
\* C13: between any two operations of the store the reading buffer holds at
\* most 86400 readings, the window buffer at most 2016 windows and the anomaly
\* buffer at most 1000 anomalies, also after a pushReading that added several
\* anomalies.
C13_BuffersWithinCaps ==
  /\ Len(readings) <= 86400
  /\ Len(windows) <= 2016
  /\ Len(anomalies) <= 1000

\* A pushReading that completed a window and emitted three anomalies has left
\* the three buffers full.
C13_Witness ==
  /\ lastOp = "pushReading"
  /\ Len(retAnomalies) = 3
  /\ Len(retWindow) = 1
  /\ Len(readings) = 86400
  /\ Len(windows) = 2016
  /\ Len(anomalies) = 1000

\* ---------------------------------------------------------------------- C14
\* new holds the most recent entries of old followed by added, in order: all
\* of them when they are at most cap, the last cap of them otherwise.
IsMostRecent(new, old, added, cap) ==
  LET all == old \o added
      dropped == Len(all) - Len(new)
  IN  /\ Len(new) = Min2(Len(all), cap)
      /\ \A i \in 1..Len(new) : new[i] = all[dropped + i]

\* C14: a pushReading leaves in each buffer the most recent entries of what
\* the buffer held followed by what the push added, in that order, dropping
\* only the eldest entries and only beyond the cap, so that by induction on
\* the pushes since the last reset (which empties the buffers) a buffer holds
\* the most recent min(n, cap) entries; the reading just pushed is the last
\* element of the reading buffer, and latest is the last element of the
\* reading buffer whenever that is not empty.
C14_EldestDropped ==
  [][/\ lastOp' = "pushReading" =>
          /\ IsMostRecent(readings', readings, <<lastReading'>>, 86400)
          /\ IsMostRecent(anomalies', anomalies, retAnomalies', 1000)
          /\ IsMostRecent(windows', windows, retWindow', 2016)
          /\ readings'[Len(readings')] = lastReading'
     /\ lastOp' = "storeReset" =>
          readings' = <<>> /\ anomalies' = <<>> /\ windows' = <<>>
     /\ readings # <<>> => latest = readings[Len(readings)]
     /\ readings' # <<>> => latest' = readings'[Len(readings')]
    ]_vars

\* A pushReading into full buffers: the eldest reading of the history (at
\* 20 s) is gone, and the reading, the anomalies and the window just added are
\* the last entries of their buffers.
C14_Witness ==
  /\ lastOp = "pushReading"
  /\ Len(readings) = 86400
  /\ readings[1].timestamp >= 40000
  /\ readings[86400] = lastReading
  /\ latest = lastReading
  /\ Len(anomalies) = 1000
  /\ retAnomalies # <<>>
  /\ anomalies[1000] = retAnomalies[Len(retAnomalies)]
  /\ Len(windows) = 2016
  /\ retWindow # <<>>
  /\ windows[2016] = retWindow[1]

\* ---------------------------------------------------------------------- C15
\* C15: pushReading(r) sets latest to r and appends r to the reading buffer;
\* the tracker is left as one processReading(r) leaves it and the window
\* manager as one addReading(r) leaves it; the anomalies that call returned
\* are appended, in order, to the anomaly buffer and the window it returned,
\* if any, to the window buffer (the buffers being below their caps);
\* pushReading returns exactly those anomalies and that window, or none.
C15_PushReading ==
  [][lastOp' = "pushReading" =>
       LET r == lastReading'
           tracked == processReading(state, r)
           added == addReading(currentWindowStart, buffer, r)
       IN  /\ latest' = r
           /\ Len(readings) < 86400 => readings' = Append(readings, r)
           /\ state' = tracked.state
           /\ retAnomalies' = tracked.anomalies
           /\ currentWindowStart' = added.currentWindowStart
           /\ buffer' = added.buffer
           /\ retWindow' = added.ret
           /\ Len(retWindow') <= 1
           /\ Len(anomalies) + Len(retAnomalies') <= 1000 =>
                anomalies' = anomalies \o retAnomalies'
           /\ Len(windows) < 2016 => windows' = windows \o retWindow'
    ]_vars

\* A pushReading that returned two anomalies and a completed window and
\* appended them to buffers that held earlier entries.
C15_Witness ==
  /\ lastOp = "pushReading"
  /\ Len(retAnomalies) = 2
  /\ Len(retWindow) = 1
  /\ Len(anomalies) > 2
  /\ SubSeq(anomalies, Len(anomalies) - 1, Len(anomalies)) = retAnomalies
  /\ Len(windows) = 1
  /\ windows[1] = retWindow[1]
  /\ latest = lastReading
  /\ readings[Len(readings)] = lastReading

\* ---------------------------------------------------------------------- C16
\* C16: a call of latest returns the reading of the last pushReading that
\* returned before it since the last reset - never an earlier reading, and
\* never nothing once a reading has been pushed.
C16_LatestAfterPush ==
  [][lastOp' = "latest" =>
       /\ result' = lastPushed
       /\ readings # <<>> => result' # NoReading
    ]_vars

\* latest returned the third reading pushed since construction.
C16_Witness ==
  /\ lastOp = "latest"
  /\ nReadings = 3
  /\ Len(readings) = 3
  /\ result = readings[3]
  /\ result # readings[2]

\* ---------------------------------------------------------------------- C17
\* C17: the list a query method returned to a reader is the list it still
\* holds after any later pushReading or reset - its elements are those it had
\* when the query returned, also when no filter was given.
C17_SnapshotNotMutated == held.list = held.returned

\* ---------------------------------------------------------------------- C18
\* C18: right after the store's reset the three buffers are empty, latest is
\* absent, the tracker has no ongoing anomaly and the window manager has no
\* open window; the first pushReading after it returns what the first
\* pushReading of a store just constructed returns: no completed window, and
\* the anomalies a fresh tracker emits.
C18_ResetAsFresh ==
  [][/\ lastOp' = "storeReset" =>
          /\ readings' = <<>> /\ windows' = <<>> /\ anomalies' = <<>>
          /\ latest' = NoReading
          /\ getActiveAnomalies(state') = <<>>
          /\ currentWindowStart' = Null
          /\ buffer' = <<>>
     /\ (lastOp = "storeReset" /\ lastOp' = "pushReading") =>
          /\ retWindow' = <<>>
          /\ retAnomalies' = processReading(InitTrackerState, lastReading').anomalies
    ]_vars

\* ---------------------------------------------------------------------- C19
\* The windows of a list that are compliant on a phase, and the fields of a
\* WeeklyComplianceResult for a phase.
CompliantWindows(ws, p) == Len(SelectSeq(ws, LAMBDA w : CompliantOf(w, p)))

PctOf(res, p) ==
  CASE p = "L1" -> res.compliancePctL1
    [] p = "L2" -> res.compliancePctL2
    [] p = "L3" -> res.compliancePctL3

CountOf(res, p) ==
  CASE p = "L1" -> res.compliantWindowsL1
    [] p = "L2" -> res.compliantWindowsL2
    [] p = "L3" -> res.compliantWindowsL3

MinPct(res) == SetMin({PctOf(res, p) : p \in Phase})

\* C19 as stated: overall_compliant is true exactly when the smallest of the
\* three percentages, as returned (rounded to 2 decimals), is at least 95.
C19_OverallIffReportedMin ==
  lastOp = "calculateWeeklyCompliance" =>
    (result.overallCompliant <=> MinPct(result) >= 95 * 100)

\* C19, amended: overall_compliant is true exactly when the list is not empty
\* and on every phase the compliant windows are at least 95 % of the windows,
\* before any rounding; every returned percentage is that percentage rounded to
\* the nearest 0.01, so overall_compliant implies that the smallest returned
\* percentage is at least 95 and a smallest returned percentage above 95
\* implies overall_compliant; with 100 windows, 95 compliant on a phase give
\* 95 and compliant, 94 give 94 and not compliant.
C19_OverallCompliant ==
  lastOp = "calculateWeeklyCompliance" =>
    LET ws == call.windows
        total == Len(ws)
    IN  /\ result.overallCompliant <=>
             /\ total > 0
             /\ \A p \in Phase : 100 * CompliantWindows(ws, p) >= 95 * total
        /\ \A p \in Phase :
             LET error == PctOf(result, p) * total - 10000 * CompliantWindows(ws, p)
             IN  -total <= 2 * error /\ 2 * error <= total
        /\ result.overallCompliant => MinPct(result) >= 95 * 100
        /\ MinPct(result) > 95 * 100 => result.overallCompliant
        /\ \A p \in Phase :
             total = 100 =>
               /\ CompliantWindows(ws, p) = 94 =>
                    PctOf(result, p) = 94 * 100 /\ ~result.overallCompliant
               /\ (CompliantWindows(ws, p) = 95
                     /\ \A q \in Phase : CompliantWindows(ws, q) >= 95) =>
                    PctOf(result, p) = 95 * 100 /\ result.overallCompliant

\* 100 windows, 95 of them compliant on one phase and all on the others: 95 %
\* and compliant.
C19_Witness ==
  /\ lastOp = "calculateWeeklyCompliance"
  /\ Len(call.windows) = 100
  /\ \E p \in Phase :
       /\ CompliantWindows(call.windows, p) = 95
       /\ PctOf(result, p) = 95 * 100
       /\ \A q \in Phase \ {p} : PctOf(result, q) = 100 * 100
  /\ result.overallCompliant

\* ---------------------------------------------------------------------- C20
\* C20: for an empty list of windows calculateWeeklyCompliance returns
\* total_windows = 0, the three compliant counts 0, the three percentages 0
\* and overall_compliant = false; for a list that is not empty total_windows
\* is its length and compliant_windows of a phase is the number of its
\* windows that are compliant on the phase, at most total_windows.
C20_WeeklyCounts ==
  lastOp = "calculateWeeklyCompliance" =>
    LET ws == call.windows
    IN  /\ result.totalWindows = Len(ws)
        /\ \A p \in Phase :
             /\ CountOf(result, p) = CompliantWindows(ws, p)
             /\ CountOf(result, p) <= result.totalWindows
        /\ Len(ws) = 0 =>
             /\ \A p \in Phase : CountOf(result, p) = 0 /\ PctOf(result, p) = 0
             /\ ~result.overallCompliant

\* A list of 1019 windows with a different number of compliant windows on each
\* phase.
C20_Witness ==
  /\ lastOp = "calculateWeeklyCompliance"
  /\ result.totalWindows = 1019
  /\ result.compliantWindowsL1 = 1019
  /\ result.compliantWindowsL2 = 1018
  /\ result.compliantWindowsL3 = 967

\* ---------------------------------------------------------------------- C21
\* The windows of a list that start in [from, to), in order.
StartingIn(ws, from, to) ==
  SelectSeq(ws, LAMBDA w : from <= w.windowStart /\ w.windowStart < to)

\* C21: getWeeklyCompliance(date) returns the weekly compliance of exactly
\* the recorded windows with week_start <= window_start < week_end, where
\* week_start is 00:00 local time of a Monday, week_end = week_start + 7 days
\* (of 24 hours) and week_start <= date < week_end: the Monday is that of the
\* week containing date, and a Sunday belongs to the week of the Monday
\* before it.
C21_WeekOfDate ==
  lastOp = "getWeeklyCompliance" =>
    LET weekStart == result.weekStart
        weekEnd == result.weekEnd
        tz == call.timeZone
    IN  /\ LocalTime(weekStart, tz) % MsPerDay = 0
        /\ getDay(weekStart, tz) = 1
        /\ weekEnd = weekStart + 7 * MsPerDay
        /\ weekStart <= call.date /\ call.date < weekEnd
        /\ result = calculateWeeklyCompliance(
                      StartingIn(windows, weekStart, weekEnd), weekStart)

\* ---------------------------------------------------------------------- C22
\* The readings of a list with from <= timestamp <= to, in order.
ReadingsWithin(rs, from, to) ==
  SelectSeq(rs, LAMBDA r : from <= r.timestamp /\ r.timestamp <= to)

\* The timestamps of a list of readings increase strictly.
IsIncreasing(rs) ==
  \A x \in 1..(Len(rs) - 1) : rs[x].timestamp < rs[x + 1].timestamp

\* sub is an order-preserving selection of the readings rs, whose timestamps
\* increase strictly: its readings are readings of rs, in the order of rs and
\* none twice.
IsSelectionOf(sub, rs) ==
  /\ IsIncreasing(rs)
  /\ IsIncreasing(sub)
  /\ \A x \in 1..Len(sub) : \E y \in 1..Len(rs) : sub[x] = rs[y]

\* C22: getReadingsDownsampled(from, to, max_points) returns the n filtered
\* readings unchanged when n <= max_points; otherwise the readings at the
\* indices floor(i * n / max_points) for i in [0, max_points), followed by the
\* final filtered reading if it is not among them.  For every max_points the
\* route can pass, the result has at most max_points + 1 entries, is an
\* order-preserving selection of the filtered readings and holds the final
\* filtered reading whenever n >= 1.
C22_Downsampled ==
  lastOp = "getReadingsDownsampled" =>
    LET filtered == ReadingsWithin(readings, call.from, call.to)
        n == Len(filtered)
        maxPoints == call.maxPoints
        indices == [x \in 1..Max2(maxPoints, 0) |->
                      ((x - 1) * n) \div maxPoints + 1]
        included == \E x \in 1..Len(indices) : indices[x] = n
        picked == [x \in 1..Len(indices) |-> filtered[indices[x]]]
    IN  /\ n <= maxPoints => result = filtered
        /\ n > maxPoints =>
             result = IF included \/ n = 0 THEN picked
                      ELSE Append(picked, filtered[n])
        /\ Len(result) <= maxPoints + 1
        /\ IsSelectionOf(result, filtered)
        /\ n >= 1 => Len(result) >= 1 /\ result[Len(result)] = filtered[n]

\* ---------------------------------------------------------------------- C23
\* C23: getWindows(from, to) returns, in the order of the buffer, exactly the
\* recorded windows with window_start >= from (when from is given) and
\* window_end <= to (when to is given): a window that starts before from or
\* ends after to is not returned, and with no bound all recorded windows are.
C23_WindowsWithin ==
  lastOp = "getWindows" =>
    /\ result = SelectSeq(windows,
                  LAMBDA w : /\ call.from # Null => w.windowStart >= call.from
                             /\ call.to # Null => w.windowEnd <= call.to)
    /\ (call.from = Null /\ call.to = Null) => result = windows
    /\ \A x \in 1..Len(windows) :
         \/ call.from # Null /\ windows[x].windowStart < call.from
         \/ call.to # Null /\ windows[x].windowEnd > call.to
         => \A y \in 1..Len(result) : result[y] # windows[x]

\* Both bounds given: the window that starts at `from` is returned, the
\* window that starts before `to` and ends after it is not.
C23_Witness ==
  /\ lastOp = "getWindows"
  /\ call.from # Null /\ call.to # Null
  /\ Len(windows) = 2
  /\ windows[1].windowStart = call.from
  /\ windows[2].windowStart < call.to /\ call.to < windows[2].windowEnd
  /\ result = <<windows[1]>>

\* ---------------------------------------------------------------------- C24
\* C24: getAnomalies({type, phase, from, to}) returns, in the order of the
\* buffer, exactly the buffered anomalies that meet every given criterion:
\* type equal, phase equal, started_at >= from, started_at <= to (ended_at is
\* not looked at); a criterion that is left out does not restrict.
C24_AnomaliesMatching ==
  lastOp = "getAnomalies" =>
    result = SelectSeq(anomalies,
               LAMBDA a : /\ call.type # "" => a.type = call.type
                          /\ call.phase # "" => a.phase = call.phase
                          /\ call.from # Null => a.startedAt >= call.from
                          /\ call.to # Null => a.startedAt <= call.to)

\* All four criteria given: an anomaly that started at `to` and ended after
\* it is returned; the buffer also holds an anomaly of the phase asked for
\* but of another type, one of another phase, and one of the phase that
\* started before `from` and ended at it, none of which is returned.
C24_Witness ==
  /\ lastOp = "getAnomalies"
  /\ call.type # "" /\ call.phase # "" /\ call.from # Null /\ call.to # Null
  /\ \E y \in 1..Len(result) :
       result[y].startedAt = call.to /\ result[y].endedAt > call.to
  /\ \E x \in 1..Len(anomalies) :
       anomalies[x].type # call.type /\ anomalies[x].phase = call.phase
  /\ \E x \in 1..Len(anomalies) :
       anomalies[x].phase # call.phase /\ anomalies[x].startedAt >= call.from
  /\ \E x \in 1..Len(anomalies) :
       /\ anomalies[x].phase = call.phase
       /\ anomalies[x].startedAt < call.from
       /\ anomalies[x].endedAt = call.from
  /\ Len(result) < Len(anomalies)

\* ---------------------------------------------------------------------- C25
\* The limit of a request: 100 when the parameter is absent or not a number,
\* and at most 1000.
LimitAsked(text) ==
  IF text = <<>> \/ parseInt(text) = NaN THEN 100
  ELSE Min2(parseInt(text), 1000)

\* The last n entries of a list, newest first.
NewestFirst(seq, n) ==
  [x \in 1..Min2(Max2(n, 0), Len(seq)) |-> seq[Len(seq) - x + 1]]

\* C25: GET /api/voltage/anomalies returns in data the most recent `limit`
\* entries of the filtered anomaly list, newest first, where limit is 100
\* when absent or unparsable and is capped at 1000; data has at most
\* min(limit, 1000) entries.
C25_NewestLimit ==
  lastOp = "GET /api/voltage/anomalies" =>
    LET query == call.query
        found == getAnomalies(anomalies, query.type, query.phase,
                              AnomaliesFrom(query), AnomaliesTo(query, call.now))
        limit == LimitAsked(query.limit)
    IN  /\ result.data = NewestFirst(found, limit)
        /\ Len(result.data) <= Min2(limit, 1000)

\* ---------------------------------------------------------------------- C26
\* C26: a GET /api/voltage/anomalies request whose type is not one of
\* LONG_INTERRUPTION, SHORT_INTERRUPTION, VOLTAGE_DEVIATION, or whose phase
\* is not one of L1, L2, L3, is answered 400 with an error token, and the
\* store is left as it was.
C26_UnknownTypeOrPhase ==
  [][(/\ lastOp' = "GET /api/voltage/anomalies"
      /\ \/ call'.query.type \notin {"", "LONG_INTERRUPTION",
                                      "SHORT_INTERRUPTION", "VOLTAGE_DEVIATION"}
         \/ call'.query.phase \notin {"", "L1", "L2", "L3"})
     => /\ result'.status = 400
        /\ UNCHANGED <<state, currentWindowStart, buffer, readings, windows,
                       anomalies, latest>>
    ]_vars

\* ---------------------------------------------------------------------- C27
\* The date a parameter resolves to: its own when it is a date, the default
\* when it is absent or not a date.
ResolvedDate(val, default) ==
  IF val.text = "" \/ val.time = NaN THEN default ELSE val.time

\* C27: GET /api/voltage/history answers 400 INVALID_RANGE exactly when the
\* resolved from >= to, where an absent or invalid from is one hour before
\* now and an absent or invalid to is now, whatever the interval; then the
\* store is not asked and nothing of its state changes; otherwise the answer
\* is 200.
C27_InvalidRange ==
  [][lastOp' = "GET /api/voltage/history" =>
       LET from == ResolvedDate(call'.query.from, call'.now - 3600000)
           to == ResolvedDate(call'.query.to, call'.now)
       IN  /\ from >= to =>
                /\ result' = [status |-> 400, error |-> "INVALID_RANGE"]
                /\ UNCHANGED held
                /\ UNCHANGED <<state, currentWindowStart, buffer, readings,
                               windows, anomalies, latest>>
           /\ from < to =>
                /\ result'.status = 200
                /\ held'.op \in {"getWindows", "getReadingsDownsampled"}
                /\ held'.op = "getWindows" <=> call'.query.interval = "10min"
    ]_vars

\* A request for the windows from an instant to the same instant, to a store
\* that holds readings and a window, is answered 400; the store was not asked
\* before and is not asked now.
C27_Witness ==
  /\ lastOp = "GET /api/voltage/history"
  /\ call.query.from.text # "" /\ call.query.from.time # NaN
  /\ call.query.to = call.query.from
  /\ call.query.interval = "10min"
  /\ result.status = 400
  /\ result.error = "INVALID_RANGE"
  /\ held = NothingHeld
  /\ Len(windows) >= 1

\* ---------------------------------------------------------------------- C28
\* C28: GET /api/voltage/latest answers 503 NO_DATA exactly when no reading
\* has been pushed since the process started or the store was last reset;
\* otherwise it answers 200 with the timestamp of the reading pushed last and
\* the analyses of its three phases, in the order L1, L2, L3.
C28_LatestOrNoData ==
  lastOp = "GET /api/voltage/latest" =>
    /\ result.status \in {200, 503}
    /\ result.status = 503 <=> lastPushed = NoReading
    /\ result.status = 503 => result.error = "NO_DATA"
    /\ result.status = 200 =>
         /\ result.timestamp = lastPushed.timestamp
         /\ Len(result.phases) = 3
         /\ \A x \in 1..3 :
              LET p == <<"L1", "L2", "L3">>[x]
                  v == VoltageOf(lastPushed, p)
                  analysis == result.phases[x]
              IN  /\ analysis.phase = p
                  /\ analysis.voltage = v
                  /\ analysis.deviation = v - 230
                  /\ analysis.inBounds <=> (220 <= v /\ v <= 240)
                  /\ analysis.isZero <=> v < 10

\* After a reset and one more reading, the answer is 200 with that reading,
\* whose phases are zero, out of bounds and in bounds.
C28_Witness ==
  /\ lastOp = "GET /api/voltage/latest"
  /\ nReadings = 3
  /\ Len(readings) = 1
  /\ result.status = 200
  /\ result.timestamp = readings[1].timestamp
  /\ result.phases[1].isZero
  /\ ~result.phases[2].inBounds /\ ~result.phases[2].isZero
  /\ result.phases[3].inBounds

\* ---------------------------------------------------------------------- C29
\* C29: a reading whose 10-minute slot is strictly before the open slot is
\* dropped or buffered into the open slot: addReading returns nothing for
\* it, the open slot stays the open slot, and the buffer is left as it was or
\* is longer by that reading.
C29_LateReading ==
  [][(/\ lastOp' = "addReading"
      /\ currentWindowStart # Null
      /\ getWindowStart(lastReading'.timestamp) < currentWindowStart)
     => /\ retWindow' = <<>>
        /\ currentWindowStart' = currentWindowStart
        /\ buffer' \in {buffer, Append(buffer, lastReading')}
    ]_vars

\* ---------------------------------------------------------------------- C30
\* The class of a classified voltage.
ClassOf(res) ==
  {c \in {"ZERO", "OOB", "IB"} :
     \/ c = "ZERO" /\ res.isZero
     \/ c = "IB" /\ res.inBounds
     \/ c = "OOB" /\ ~res.inBounds /\ ~res.isZero}

\* C30: in_bounds(v) holds exactly when 220 <= v <= 240 - 220 and 240 are in
\* bounds, 219.999 and 240.001 are not - and is_zero(v) exactly when v < 10 -
\* 9.999 is zero, 10.0 is not; so every voltage is exactly one of ZERO, OOB
\* and IB, and a zero voltage is never in bounds.  (v in millivolts.)
C30_BoundaryExact ==
  lastOp = "classify" =>
    LET v == call.voltage
    IN  /\ result.inBounds <=> (220000 <= v /\ v <= 240000)
        /\ result.isZero <=> v < 10000
        /\ v \in {220000, 240000} => result.inBounds
        /\ v \in {219999, 240001} => ~result.inBounds
        /\ v = 9999 => result.isZero
        /\ v = 10000 => ~result.isZero
        /\ Cardinality(ClassOf(result)) = 1
        /\ result.isZero => ~result.inBounds

\* 219.999 V is classified: not in bounds, not zero.
C30_Witness ==
  /\ lastOp = "classify"
  /\ call.voltage = 219999
  /\ ~result.inBounds
  /\ ~result.isZero
  /\ ClassOf(result) = {"OOB"}

\* ---------------------------------------------------------------------- C31
\* The RMS of a window on a phase (a fixed-point number with three decimals).
RmsOf(w, p) ==
  CASE p = "L1" -> w.rmsVoltageL1
    [] p = "L2" -> w.rmsVoltageL2
    [] p = "L3" -> w.rmsVoltageL3

\* Natural numbers beyond 32 bits, for the squares of millivolt values: the
\* sequence of the six digits of a number in base 1000, lowest first.
BigOf(x) ==
  <<x % 1000, (x \div 1000) % 1000, (x \div 1000000) % 1000,
    x \div 1000000000, 0, 0>>

RECURSIVE BigTimesFrom(_, _, _, _)
BigTimesFrom(b, k, i, carry) ==
  IF i > Len(b) THEN <<>>
  ELSE LET t == b[i] * k + carry
       IN  <<t % 1000>> \o BigTimesFrom(b, k, i + 1, t \div 1000)

\* b * k, for k up to 2 000 000
BigTimes(b, k) == BigTimesFrom(b, k, 1, 0)

RECURSIVE BigLeqFrom(_, _, _)
BigLeqFrom(a, b, i) ==
  IF i = 0 THEN TRUE
  ELSE IF a[i] # b[i] THEN a[i] < b[i]
  ELSE BigLeqFrom(a, b, i - 1)

BigLeq(a, b) == BigLeqFrom(a, b, Len(a))

RECURSIVE SumOf(_)
SumOf(samples) ==
  IF samples = <<>> THEN 0 ELSE Head(samples) + SumOf(Tail(samples))

\* r / 1000 is sqrt(num / den) rounded to the nearest multiple of 0.001:
\* (2r - 1)^2 * den <= 4 000 000 * num < (2r + 1)^2 * den.
IsRoundedRoot(r, num, den) ==
  LET scaled == BigTimes(BigTimes(BigTimes(BigOf(num), 4), 1000), 1000)
      above == BigTimes(BigTimes(BigOf(2 * r + 1), 2 * r + 1), den)
      below == BigTimes(BigTimes(BigOf(2 * r - 1), 2 * r - 1), den)
  IN  /\ r >= 0
      /\ ~BigLeq(above, scaled)
      /\ r > 0 => BigLeq(below, scaled)

C32_ZeroReading ==
  [][lastOp' = "processReading" =>
       \A p \in Phase :
         VoltageOf(lastReading', p) < 10 =>
           /\ OfPhase(retAnomalies', p) = <<>>
           /\ ~state[p].interruption.ongoing =>
                state'[p].interruption
                  = [ongoing |-> TRUE, startedAt |-> lastReading'.timestamp]
           /\ state[p].interruption.ongoing =>
                /\ state'[p] = state[p]
                /\ state'[p].interruption.startedAt = hist[p].zeroRun
                /\ hist'[p].zeroRun = hist[p].zeroRun
           /\ state[p].deviation.ongoing =>
                /\ ~state'[p].deviation.ongoing
                /\ state'[p].deviation.startedAt = Null
                /\ EntriesOf(getActiveAnomalies(state'), p, "deviation") = 0
    ]_vars

\* A third reading finds a phase without voltage for the second time in a
\* row, after a deviation on that phase that the first zero reading ended:
\* the interruption still starts at the first zero reading.
C32_Witness ==
  /\ lastOp = "processReading"
  /\ nReadings = 3
  /\ \E p \in Phase :
       /\ VoltageOf(lastReading, p) < 10
       /\ hist[p].endedBy = "ZERO"
       /\ hist[p].lastOpen # Null
       /\ ~hist[p].paired
       /\ state[p].interruption.ongoing
       /\ state[p].interruption.startedAt < lastReading.timestamp
       /\ ~state[p].deviation.ongoing
       /\ OfPhase(retAnomalies, p) = <<>>

\* ---------------------------------------------------------------------- C33
\* The position of a phase in PHASES.
PhaseIndex(p) == CHOOSE i \in 1..Len(PHASES) : PHASES[i] = p

\* C33: within one reading, interruption logic runs before deviation logic
\* for each phase: a reading that closes an interruption on a phase emits an
\* opening deviation for that phase only if the recovery voltage is itself
\* out of bounds, and then the interruption anomaly precedes the opening
\* deviation in the returned list; anomalies of different phases appear in
\* the order L1, L2, L3.
C33_InterruptionFirst ==
  [][lastOp' = "processReading" =>
       /\ \A p \in Phase :
            LET v == VoltageOf(lastReading', p)
                out == OfPhase(retAnomalies', p)
            IN  (state[p].interruption.ongoing /\ v >= 10) =>
                  /\ Len(out) >= 1
                  /\ out[1].type \in InterruptionTypes
                  /\ out[1].endedAt = lastReading'.timestamp
                  /\ (220 <= v /\ v <= 240) => Len(out) = 1
                  /\ Len(out) > 1 =>
                       /\ Len(out) = 2
                       /\ ~(220 <= v /\ v <= 240)
                       /\ out[2].type = "VOLTAGE_DEVIATION"
                       /\ out[2].endedAt = Null
                       /\ out[2].startedAt = lastReading'.timestamp
       /\ \A i, j \in 1..Len(retAnomalies') :
            i < j => PhaseIndex(retAnomalies'[i].phase)
                       <= PhaseIndex(retAnomalies'[j].phase)
    ]_vars

\* A reading closed an interruption on a phase with a recovery voltage out
\* of bounds and a deviation on a later phase: the interruption, the opening
\* deviation of the same phase, then the anomaly of the later phase.
C33_Witness ==
  /\ lastOp = "processReading"
  /\ Len(retAnomalies) = 3
  /\ retAnomalies[1].type \in InterruptionTypes
  /\ retAnomalies[2].type = "VOLTAGE_DEVIATION"
  /\ retAnomalies[2].endedAt = Null
  /\ retAnomalies[2].phase = retAnomalies[1].phase
  /\ retAnomalies[2].startedAt = retAnomalies[1].endedAt
  /\ PhaseIndex(retAnomalies[3].phase) > PhaseIndex(retAnomalies[1].phase)

\* ---------------------------------------------------------------------- C34
\* C34: the empty-readings aggregate (sample_count = 0, 0 V RMS, oob_seconds
\* = 600, not compliant) never arises from the aggregator: every window
\* returned by WindowManager.addReading or flush, and therefore every window
\* recorded by the store, has sample_count >= 1; the aggregator has an open
\* slot exactly when its buffer is non-empty.
C34_NoEmptyWindow ==
  /\ \A i \in 1..Len(retWindow) :
       /\ retWindow[i].sampleCount >= 1
       /\ retWindow[i] # aggregateWindow(<<>>, retWindow[i].windowStart, 10)
  /\ \A i \in 1..Len(windows) : windows[i].sampleCount >= 1
  /\ (currentWindowStart # Null) <=> (Len(buffer) > 0)

\* A flush right after a flush that returned a window: it returns nothing,
\* and the store holds a window recorded before.
C34_Witness ==
  /\ lastOp = "flush"
  /\ retWindow = <<>>
  /\ currentWindowStart = Null
  /\ buffer = <<>>
  /\ nReadings = 3
  /\ Len(windows) = 1
  /\ windows[1].sampleCount = 2

\* ---------------------------------------------------------------------- C35
\* C35: getWindowStart(d) is the greatest 10-minute wall-clock boundary not
\* after d: its minutes are a multiple of 10, its seconds and milliseconds
\* are 0, getWindowStart(d) <= d < getWindowStart(d) + 600 s, and it is
\* idempotent (a timestamp already on a boundary maps to itself); every
\* RmsWindow has window_end - window_start = 600 s.
C35_WindowStart ==
  lastOp = "getWindowStart" =>
    LET d == call.date
        tz == call.timeZone
        ws == result.windowStart
    IN  /\ LocalTime(ws, tz) % 600000 = 0
        /\ ws <= d /\ d < ws + 600000
        /\ LocalTime(d, tz) % 600000 = 0 => ws = d
        /\ getWindowStartIn(ws, tz) = ws
        /\ result.windowEnd - ws = 600000
        /\ tz.change = Null => ws = getWindowStart(d)

\* ---------------------------------------------------------------------- C36
\* C36: in every reachable state of AnomalyTracker and for every phase, the
\* interruption and the deviation sub-machines are never both ongoing, and
\* each sub-machine is ongoing exactly when its started_at is set;
\* consequently getActiveAnomalies returns at most one entry per phase (at
\* most 3) and one reading emits at most 2 anomalies per phase.
C36_OneSubMachine ==
  LET active == getActiveAnomalies(state)
  IN  /\ \A p \in Phase :
           /\ ~(state[p].interruption.ongoing /\ state[p].deviation.ongoing)
           /\ state[p].interruption.ongoing
                <=> state[p].interruption.startedAt # Null
           /\ state[p].deviation.ongoing
                <=> state[p].deviation.startedAt # Null
           /\ Len(OfPhase(active, p)) <= 1
           /\ Len(OfPhase(active, p)) = 1
                <=> (state[p].interruption.ongoing \/ state[p].deviation.ongoing)
           /\ Len(OfPhase(retAnomalies, p)) <= 2
      /\ Len(active) <= 3

\* A reading closed an interruption on a phase and opened a deviation on it
\* (2 anomalies of that phase) while another phase lost its voltage: two
\* phases with one active entry each.
C36_Witness ==
  /\ lastOp = "processReading"
  /\ Len(getActiveAnomalies(state)) = 2
  /\ \E p, q \in Phase :
       /\ p # q
       /\ Len(OfPhase(retAnomalies, p)) = 2
       /\ state[p].deviation.ongoing
       /\ ~state[p].interruption.ongoing
       /\ state[q].interruption.ongoing
       /\ ~state[q].deviation.ongoing

\* ---------------------------------------------------------------------- C37
\* C37: for each phase and any reading sequence: from the reading that
\* starts an interruption until the first later non-zero reading on that
\* phase, the interruption is listed by getActiveAnomalies after every step
\* and no interruption anomaly is emitted; at that first non-zero reading
\* exactly one is emitted.  Hence the number of interruption anomalies
\* emitted for a phase equals the number of zero-to-non-zero transitions in
\* that phase's voltage sequence.  (The sequence is that of the readings fed
\* since the tracker was created or reset.)
C37_InterruptionsCounted ==
  [][lastOp' = "processReading" =>
       \A p \in Phase :
         LET v == VoltageOf(lastReading', p)
             emitted == Interruptions(OfPhase(retAnomalies', p))
             active == getActiveAnomalies(state')
             listed == {i \in 1..Len(active) :
                          /\ active[i].phase = p
                          /\ active[i].type = "interruption"}
         IN  /\ v < 10 =>
                  /\ emitted = <<>>
                  /\ Cardinality(listed) = 1
                  /\ \A i \in listed : active[i].startedAt = hist'[p].zeroRun
             /\ (v >= 10 /\ hist[p].zeroRun # Null) =>
                  /\ Len(emitted) = 1
                  /\ emitted[1].startedAt = hist[p].zeroRun
                  /\ listed = {}
             /\ (v >= 10 /\ hist[p].zeroRun = Null) =>
                  /\ emitted = <<>>
                  /\ listed = {}
             /\ hist'[p].surplus = 0
    ]_vars

\* The third reading of a phase: without voltage in the first two, with
\* voltage in the third - one transition, one interruption anomaly, emitted
\* by the third reading and starting at the first.
C37_Witness ==
  /\ lastOp = "processReading"
  /\ nReadings = 3
  /\ \E p \in Phase :
       /\ VoltageOf(lastReading, p) >= 10
       /\ hist[p].zeroRun = Null
       /\ hist[p].surplus = 0
       /\ Len(Interruptions(OfPhase(retAnomalies, p))) = 1
       /\ retAnomalies[1].durationSeconds = Fixed3(180)
       /\ ~state[p].interruption.ongoing

\* ---------------------------------------------------------------------- C38
\* C38: in every reachable state of WindowManager, all buffered readings
\* have the same 10-minute slot and that slot equals the open window start;
\* so the aggregator holds at most one in-flight window's worth of readings
\* and every emitted window aggregates only readings with window_start <= ts
\* < window_end.
C38_OneSlotBuffered ==
  [][/\ \A i \in 1..Len(buffer') :
          /\ SlotOf(buffer'[i].timestamp) = currentWindowStart'
          /\ SlotOf(buffer'[i].timestamp) = SlotOf(buffer'[1].timestamp)
     /\ \A i \in 1..Len(retWindow') :
          /\ retWindow'[i].sampleCount = Len(buffer)
          /\ \A j \in 1..Len(buffer) :
               /\ retWindow'[i].windowStart <= buffer[j].timestamp
               /\ buffer[j].timestamp < retWindow'[i].windowEnd
    ]_vars

\* ---------------------------------------------------------------------- C39
\* C39: no reading is lost or counted twice by the aggregator: after any
\* sequence of addReading and flush calls on a WindowManager, the sum of
\* sample_count over all windows it has returned plus its current bufferSize
\* equals the number of addReading calls made.
C39_ReadingsConserved ==
  /\ emittedSamples + bufferSize = addCalls
  /\ lastOp \in {"addReading", "flush"} => addCalls = nReadings

\* Three readings were added and a flush followed: a window of two readings
\* was returned by addReading, one of one reading by flush, nothing is
\* buffered.
C39_Witness ==
  /\ lastOp = "flush"
  /\ addCalls = 3
  /\ emittedSamples = 3
  /\ bufferSize = 0
  /\ Len(retWindow) = 1
  /\ retWindow[1].sampleCount = 1

\* ---------------------------------------------------------------------- C40
\* C40: when readings are pushed with non-decreasing timestamps, the windows
\* recorded in the store's window buffer have strictly increasing
\* window_start (no slot is recorded twice), and every recorded window's slot
\* is strictly before the slot of the latest reading: the window containing
\* the latest reading is never in the window buffer or in weekly compliance
\* until a reading of a later slot is pushed.
C40_WindowsInOrder ==
  /\ \A i, j \in 1..Len(windows) :
       i < j => windows[i].windowStart < windows[j].windowStart
  /\ latest # NoReading =>
       \A i \in 1..Len(windows) :
         /\ windows[i].windowStart < SlotOf(latest.timestamp)
         /\ windows[i].windowEnd <= latest.timestamp

====
